---- MODULE Spec2Model ----
(***************************************************************************)
(* Exit handling of Algomirror: the atomic exit claims and the mark_*      *)
(* transitions of app/utils/exit_order_manager.py, the broker              *)
(* verification, and the sequential exit coordinator and the per-minute    *)
(* monitor of app/utils/supertrend_exit_service.py.                        *)
(*                                                                         *)
(* One strategy is modelled.  Thread 0 is the scheduler job                 *)
(* (monitor_strategies, max_instances=1); threads 1..NumManual are other    *)
(* callers of trigger_sequential_exit.  Every thread has its own           *)
(* SQLAlchemy session: loaded[t] is the StrategyExecution object of that   *)
(* session's identity map, and a commit writes back exactly the attributes *)
(* whose value differs from the loaded one (unit of work).                 *)
(***************************************************************************)
EXTENDS Integers, Sequences, FiniteSets, TLC

\* ---------------------------------------------------------------- bounds
NumPos == 1
NumManual == 1
MaxTime == 20
TimeStep == 10
MaxOrders == 2

\* ------------------------------------------------------ program constants
EXIT_RETRY_DELAY_SECONDS == 10
MAX_EXIT_ATTEMPTS == 5

Pos == 1..NumPos
Sched == 0
Threads == 0..NumManual
NoThread == 0 - 1
NullTime == 0 - 1
NullId == 0
NoPos == 0
NoReason == <<>>
NoMsg == "none"
Dialects == {"postgresql", "sqlite"}

\* str.upper() on the words the model uses.
Upper(w) ==
    CASE w = "Supertrend" -> "SUPERTREND"
      [] w = "supertrend_breakout" -> "SUPERTREND_BREAKOUT"
      [] w = "sell" -> "SELL"
      [] OTHER -> w

\* leg.action of a position as it is stored: positions 1, 5, .. were entered
\* with BUY, positions 2, 6, .. with SELL, positions 3, 7, .. have no leg
\* ("NONE"), positions 4, 8, .. have a leg whose action is stored in lower
\* case.
LegAction(p) ==
    CASE p % 4 = 1 -> "BUY"
      [] p % 4 = 2 -> "SELL"
      [] p % 4 = 3 -> "NONE"
      [] OTHER -> "sell"

Quantity(p) == 25 * p
\* entry_action = leg.action.upper() if leg else 'BUY'
EntryAction(p) == IF LegAction(p) = "NONE" THEN "BUY" ELSE Upper(LegAction(p))
\* exit_action = 'SELL' if entry_action == 'BUY' else 'BUY'
ExitAction(p) == IF EntryAction(p) = "BUY" THEN "SELL" ELSE "BUY"

\* --------------------------------------------------------------- reasons
\* An exit reason is a sequence of words; upper() is applied word by word.

SignalReason == <<"supertrend_breakout">>
SweepReason == <<"Supertrend", "RETRY">>
ManualReasons == {SignalReason, SweepReason}

IsRetryEvent(r) == \E i \in 1..Len(r) : Upper(r[i]) = "RETRY"

\* ------------------------------------------------------------------ rows
InitRow ==
    [status |-> "entered",
     exit_order_id |-> NullId,
     exit_reason |-> NoReason,
     exit_pending_since |-> NullTime,
     exit_attempt_count |-> 0,
     exit_retry_after |-> NullTime,
     exit_broker_verified |-> FALSE,
     broker_order_status |-> "complete",
     exit_time |-> NullTime,
     error_message |-> NoMsg]

Fields == DOMAIN InitRow

\* ------------------------------------------------- exit_order_manager.py
\* A WHERE clause of atomic_claim_exit that leaves out the status test.
ClaimExitGuardAnyStatus(row) ==
    row.exit_order_id = NullId

\* WHERE clause of atomic_claim_exit.
ClaimExitGuard(row) ==
    /\ row.status = "entered"
    /\ row.exit_order_id = NullId

\* A VALUES clause that counts the attempt and leaves the status.
ClaimExitValuesKeepsStatus(row, reason, t) ==
    [row EXCEPT !.exit_reason = reason,
                !.exit_pending_since = t,
                !.exit_attempt_count = row.exit_attempt_count + 1,
                !.exit_retry_after = t + EXIT_RETRY_DELAY_SECONDS]

\* VALUES clause of atomic_claim_exit.
ClaimExitValues(row, reason, t) ==
    [row EXCEPT !.status = "exit_pending",
                !.exit_reason = reason,
                !.exit_pending_since = t,
                !.exit_attempt_count = row.exit_attempt_count + 1,
                !.exit_retry_after = t + EXIT_RETRY_DELAY_SECONDS]

\* A WHERE clause of atomic_claim_exit_retry that leaves out the
\* exit_order_id test.
ClaimRetryGuardIgnoresOrderId(row, t) ==
    /\ row.status = "exit_pending"
    /\ row.exit_retry_after # NullTime
    /\ row.exit_retry_after <= t
    /\ row.exit_attempt_count < MAX_EXIT_ATTEMPTS

\* A WHERE clause of atomic_claim_exit_retry that compares the attempts
\* with <= instead of <.
ClaimRetryGuardOffByOne(row, t) ==
    /\ row.status = "exit_pending"
    /\ row.exit_order_id = NullId
    /\ row.exit_retry_after # NullTime
    /\ row.exit_retry_after <= t
    /\ row.exit_attempt_count <= MAX_EXIT_ATTEMPTS

\* WHERE clause of atomic_claim_exit_retry; a NULL exit_retry_after never
\* compares <= now.
ClaimRetryGuard(row, t) ==
    /\ row.status = "exit_pending"
    /\ row.exit_order_id = NullId
    /\ row.exit_retry_after # NullTime
    /\ row.exit_retry_after <= t
    /\ row.exit_attempt_count < MAX_EXIT_ATTEMPTS

\* A VALUES clause of atomic_claim_exit_retry that does not set
\* exit_retry_after again.
ClaimRetryValuesNoRearm(row, reason, t) ==
    [row EXCEPT !.exit_attempt_count = row.exit_attempt_count + 1,
                !.exit_reason = reason]

\* A VALUES clause of atomic_claim_exit_retry that does not count the
\* attempt.
ClaimRetryValuesUncounted(row, reason, t) ==
    [row EXCEPT !.exit_retry_after = t + EXIT_RETRY_DELAY_SECONDS,
                !.exit_reason = reason]

\* VALUES clause of atomic_claim_exit_retry.
ClaimRetryValues(row, reason, t) ==
    [row EXCEPT !.exit_attempt_count = row.exit_attempt_count + 1,
                !.exit_retry_after = t + EXIT_RETRY_DELAY_SECONDS,
                !.exit_reason = reason]

\* The row after the single UPDATE (unchanged when rowcount = 0).
AtomicClaimExit(row, reason, t) ==
    IF ClaimExitGuard(row) THEN ClaimExitValues(row, reason, t) ELSE row

AtomicClaimExitRetry(row, reason, t) ==
    IF ClaimRetryGuard(row, t) THEN ClaimRetryValues(row, reason, t) ELSE row

\* result.rowcount of the two UPDATE statements (lines 79, 129).
ClaimExitRowcount(row) == IF ClaimExitGuard(row) THEN 1 ELSE 0

ClaimRetryRowcount(row, t) == IF ClaimRetryGuard(row, t) THEN 1 ELSE 0

\* A rollback that leaves the pending UPDATE in the row.
RolledBackKeepsUpdate(before, pending) == pending

\* db.session.rollback() in the except branch (lines 89, 139): the row as it
\* was before the transaction, whatever the UPDATE had done in it.
RolledBack(before, pending) == before

\* Attribute assignments of mark_exit_success on the session's object.
MarkExitSuccess(obj, orderId, t) ==
    [obj EXCEPT !.exit_order_id = orderId,
                !.broker_order_status = "open",
                !.exit_time = t,
                !.exit_broker_verified = FALSE]

\* Attribute assignments of mark_exit_failed.
MarkExitFailed(obj, msg, needsVerification, t) ==
    [obj EXCEPT !.status = "exit_pending",
                !.error_message = msg,
                !.exit_retry_after = t + EXIT_RETRY_DELAY_SECONDS,
                !.exit_broker_verified = ~needsVerification]

\* A mark_exit_confirmed that records the broker's answer and leaves the
\* status as it is.
MarkExitConfirmedKeepsStatus(obj, brokerStatus, orderId, t) ==
    [obj EXCEPT !.broker_order_status = brokerStatus,
                !.exit_order_id = IF orderId # NullId THEN orderId ELSE @,
                !.exit_time = IF @ = NullTime THEN t ELSE @,
                !.exit_broker_verified = TRUE]

\* Attribute assignments of mark_exit_confirmed.
MarkExitConfirmed(obj, brokerStatus, orderId, t) ==
    [obj EXCEPT !.status = "exited",
                !.broker_order_status = brokerStatus,
                !.exit_order_id = IF orderId # NullId THEN orderId ELSE @,
                !.exit_time = IF @ = NullTime THEN t ELSE @,
                !.exit_broker_verified = TRUE]

\* Lines 755-757 of trigger_sequential_exit: position closed at the broker.
DirectExit(obj, t) ==
    [obj EXCEPT !.status = "exited",
                !.exit_reason = <<"broker_confirmed_closed">>,
                !.exit_time = t]

\* db.session.commit() of a session whose object was loaded as snap and now
\* reads obj: the UPDATE sets the attributes that changed, the others keep
\* the value the row has in the database.
Flush(row, snap, obj) ==
    [f \in Fields |-> IF obj[f] # snap[f] THEN obj[f] ELSE row[f]]

\* A can_attempt_exit that still waits at the instant exit_retry_after.
CanAttemptExitWaitsLonger(row, t) ==
    IF row.status = "exited" THEN FALSE
    ELSE IF row.exit_order_id # NullId THEN FALSE
    ELSE IF row.exit_attempt_count >= MAX_EXIT_ATTEMPTS THEN FALSE
    ELSE IF row.status = "entered" /\ row.exit_pending_since = NullTime THEN TRUE
    ELSE IF row.status = "exit_pending"
    THEN ~(row.exit_retry_after # NullTime /\ t <= row.exit_retry_after)
    ELSE row.status = "entered"

\* can_attempt_exit (lines 270-317): the first element of the tuple it
\* returns, for the row it is given at instant t.
CanAttemptExit(row, t) ==
    IF row.status = "exited" THEN FALSE
    ELSE IF row.exit_order_id # NullId THEN FALSE
    ELSE IF row.exit_attempt_count >= MAX_EXIT_ATTEMPTS THEN FALSE
    ELSE IF row.status = "entered" /\ row.exit_pending_since = NullTime THEN TRUE
    ELSE IF row.status = "exit_pending"
    THEN ~(row.exit_retry_after # NullTime /\ t < row.exit_retry_after)
    ELSE row.status = "entered"

\* Filter of get_pending_exit_retries.
PendingRetry(row, t) ==
    /\ row.status = "exit_pending"
    /\ row.exit_order_id = NullId
    /\ row.exit_retry_after # NullTime
    /\ row.exit_retry_after <= t
    /\ row.exit_attempt_count < MAX_EXIT_ATTEMPTS

\* ------------------------------------------------------------ the broker
\* orders[p] is the list of exit orders the broker accepted for position p,
\* oldest first; every fill is a full fill of Quantity(p).
OrderId(p, k) == p * (MaxOrders + 1) + k

Completed(os) == {k \in 1..Len(os) : os[k].status = "complete"}

\* Net quantity the position book reports for the symbol of p.
LiveQuantity(p, os) == Quantity(p) - Quantity(p) * Cardinality(Completed(os))

Abs(x) == IF x < 0 THEN 0 - x ELSE x

Reverse(s) == [k \in 1..Len(s) |-> s[Len(s) + 1 - k]]

\* Order book and trade book entries of position p's exit orders.
OrderBookOf(p, os) ==
    [k \in 1..Len(os) |->
        [symbol |-> p, transaction_type |-> ExitAction(p),
         order_status |-> os[k].status, orderid |-> os[k].id]]

RECURSIVE TradesOf(_, _)
TradesOf(p, os) ==
    IF os = <<>> THEN <<>>
    ELSE LET rest == TradesOf(p, Tail(os))
         IN  IF Head(os).status = "complete"
             THEN <<[symbol |-> p, transaction_type |-> ExitAction(p),
                     quantity |-> Quantity(p), orderid |-> Head(os).id]>> \o rest
             ELSE rest

\* What a book query can give: the data, an in-band error (status not
\* 'success'), or an exception while the answer is read; empty is the data
\* of an answer that carries none.
Responses(data, empty) ==
    {[kind |-> "success", data |-> data],
     [kind |-> "error", data |-> empty],
     [kind |-> "raise", data |-> empty]}

\* ------------------------------------------- verify_exit_order_at_broker
VerifyInitial ==
    [has_exit_order |-> FALSE, order_status |-> "none", order_id |-> NullId,
     position_quantity |-> 0, can_place_exit |-> FALSE]

\* Index of the first entry of a book that is an exit order (trade) of p,
\* 0 when there is none.
FirstIndex(S) == IF S = {} THEN 0 ELSE CHOOSE k \in S : \A j \in S : k <= j

ExitOrderIndex(p, book) ==
    FirstIndex({k \in 1..Len(book) :
        /\ book[k].symbol = p
        /\ book[k].transaction_type = ExitAction(p)})

ExitTradeIndex(p, trades) ==
    FirstIndex({k \in 1..Len(trades) :
        /\ trades[k].symbol = p
        /\ trades[k].transaction_type = ExitAction(p)
        /\ Abs(trades[k].quantity) >= Quantity(p)})

\* Step 1 (lines 180-195): quantity found in the position book; pr.data is
\* the signed quantity of the symbol, 0 when the book does not list it or
\* the query did not succeed.
PositionQuantity(pr) == IF pr.kind = "success" THEN Abs(pr.data) ELSE 0

\* A result that lets an exit be placed whatever the order found.
OrderBookResultAlwaysAllows(res, order) ==
    [res EXCEPT !.has_exit_order = TRUE,
                !.order_status = order.order_status,
                !.order_id = order.orderid,
                !.can_place_exit = TRUE]

\* Step 2 (lines 213-231): the result for the first exit order found.
OrderBookResult(res, order) ==
    [res EXCEPT !.has_exit_order = TRUE,
                !.order_status = order.order_status,
                !.order_id = order.orderid,
                !.can_place_exit = order.order_status \in {"cancelled", "rejected"}]

VerifyExitOrderAtBroker(p, pr, ob, tb) ==
    LET qty == PositionQuantity(pr)
        r1 == [VerifyInitial EXCEPT !.position_quantity = qty]
        oi == IF ob.kind = "success" THEN ExitOrderIndex(p, ob.data) ELSE 0
        ti == IF tb.kind = "success" THEN ExitTradeIndex(p, tb.data) ELSE 0
    IN  IF pr.kind = "raise" THEN VerifyInitial
        ELSE IF qty = 0
        THEN [r1 EXCEPT !.has_exit_order = TRUE, !.order_status = "complete"]
        ELSE IF ob.kind = "raise" THEN r1
        ELSE IF oi # 0 THEN OrderBookResult(r1, ob.data[oi])
        ELSE IF tb.kind = "raise" THEN r1
        ELSE IF ti # 0
        THEN [r1 EXCEPT !.has_exit_order = TRUE, !.order_status = "complete",
                        !.order_id = tb.data[ti].orderid]
        ELSE [r1 EXCEPT !.can_place_exit = TRUE]

\* ----------------------------------------------------------------- state
VARIABLES
    now,          \* datetime.utcnow(), in seconds
    dialect,      \* database backend: with_for_update is a no-op on SQLite
    triggered,    \* strategy.supertrend_exit_triggered
    rowLock,      \* holder of the strategy's row lock (PostgreSQL)
    exec,         \* exec[p]: the StrategyExecution row of position p
    orders,       \* orders[p]: exit orders the broker accepted for p
    pc,           \* pc[t]: where thread t stands
    reason,       \* reason[t]: exit_reason of the running invocation
    saw,          \* saw[t]: supertrend_exit_triggered as read at line 596
    queue,        \* queue[t]: execution_ids still to process
    loaded,       \* loaded[t]: the session's StrategyExecution object
    call,         \* call[t]: order id the broker gave the pending call
    claimedFrom,  \* history: exit_attempt_count before the claim t won
    phase,        \* loop of monitor_strategies the scheduler job is in
    processed,    \* strategies_processed_this_cycle (one strategy)
    ev,           \* history: what the step that led here did to a row
    freshWins,    \* history: atomic_claim_exit calls that returned True
    submitted,    \* history: order-submission calls made for each position
    poller,       \* orders handed to order_status_poller.add_order, in order
    input,        \* arguments of the function call under examination
    output,       \* what that call returned
    service       \* the option-chain background service's fields

vars == <<now, dialect, triggered, rowLock, exec, orders, pc, reason, saw,
          queue, loaded, call, claimedFrom, phase, processed, ev, freshWins, submitted, poller, input, output,
          service>>

\* No function call is under examination.
NoCall == [fn |-> "none"]

dbVars == <<triggered, rowLock, exec>>
localVars == <<reason, saw, queue, loaded, call, claimedFrom>>
schedVars == <<phase, processed>>

\* ev.op names the operation of the latest step ("none" when it touched no
\* row and no latch): thread, position, the row before it, the instant,
\* whether a claim or a latch decision went through, and for a latch
\* decision the value the latch had in the database at that moment.
\* For a verification, ev.qty is the position_quantity it reported and
\* ev.found the order_status ("none" when it reported no order).
NoQuantity == 0 - 1

NoEvent ==
    [op |-> "none", thread |-> NoThread, pos |-> NoPos, before |-> InitRow,
     at |-> NullTime, ok |-> FALSE, latch |-> FALSE, qty |-> NoQuantity,
     found |-> "none"]

Event(op, t, p, before, ok) ==
    [op |-> op, thread |-> t, pos |-> p, before |-> before, at |-> now,
     ok |-> ok, latch |-> triggered, qty |-> NoQuantity, found |-> "none"]

VerifyEvent(op, t, p, before, ok, v) ==
    [Event(op, t, p, before, ok) EXCEPT !.qty = v.position_quantity,
                                        !.found = v.order_status]

\* ------------------------------------------------ OptionChainBackgroundService
\* The background service (background_service.py) keeps a primary account,
\* an ordered backup list and the map of active option-chain monitors.
NumBackups == 2
NumExpiries == 1
\* expiries[:4] - only the first four expiries are streamed (line 223).
MaxStreamed == 4

NoAccount == 0
Accounts == 1..(NumBackups + 1)
\* The account flagged is_primary; the others are its backups.
FlaggedPrimary == 1
Underlyings == {"NIFTY", "BANKNIFTY"}
Expiries == 1..NumExpiries

\* Result of a liveness call during failover: the in-band status of ping(),
\* or an exception while the client is built or called (lines 132-160).
PingResults == {"success", "error", "raise"}

\* Result of an expiry fetch: a non-success envelope, or status success with
\* the first n expiries as data (n = 0 is an empty list).
FetchFailed == 0 - 1
FetchResults == {FetchFailed} \cup (0..NumExpiries)

\* What the accounts answer to one expiry query for an underlying: the
\* accounts that are up return the exchange's list, the others fail.
ExpiryResponses ==
    {[a \in Accounts |-> IF a \in up THEN n ELSE FetchFailed] :
        up \in SUBSET Accounts, n \in 0..NumExpiries}

MinOf(S) == CHOOSE x \in S : \A y \in S : x <= y

\* manager_key = f"{underlying}_{exp}": the key is kept as its parts.
ManagerKey(underlying, exp) == <<underlying, exp>>

\* key.split('_')[0]
KeyUnderlying(key) == key[1]

\* k.startswith(f"{underlying}_") where `underlying` is whatever the caller
\* passed; the text after the trailing underscore is at least one more part.
StartsWithThenUnderscore(key, parts) ==
    /\ Len(key) > Len(parts)
    /\ SubSeq(key, 1, Len(parts)) = parts

\* __init__: no primary, no backups, no managers.  The remaining fields
\* record the course of the latest failover and the latest expiry fetch.
InitService ==
    [primary_account    |-> NoAccount,
     backup_accounts    |-> <<>>,
     active_managers    |-> {},
     websocket_managers |-> {},
     pc      |-> "idle",
     todo    |-> {},
     op      |-> "init",
     listed  |-> <<>>,
     tried   |-> <<>>,
     had     |-> {},
     fetched |-> <<>>,
     fetch_ok |-> FALSE]

ActiveKeys(svc) == {m.key : m \in svc.active_managers}

ActiveUnderlyings(svc) == {KeyUnderlying(k) : k \in ActiveKeys(svc)}

\* Accounts other than `a` in creation order (the backup query of
\* on_primary_account_connected).
RECURSIVE OthersFrom(_, _)
OthersFrom(a, i) ==
    IF i > NumBackups + 1 THEN <<>>
    ELSE (IF i = a THEN <<>> ELSE <<i>>) \o OthersFrom(a, i + 1)

\* A stop_option_chain that stops nothing.
StopOptionChainKeepsAll(svc, parts) == svc

\* stop_option_chain(underlying) with expiry None: removes the managers whose
\* key starts with the argument followed by an underscore and the websocket
\* manager stored under the argument.  `parts` is the argument split at '_'.
StopOptionChain(svc, parts) ==
    [svc EXCEPT
        !.active_managers =
            {m \in @ : ~StartsWithThenUnderscore(m.key, parts)},
        !.websocket_managers = {w \in @ : <<w>> # parts}]

\* stop_all_option_chains: stop_option_chain is called with every KEY of the
\* active map as its `underlying` argument.
RECURSIVE StopEach(_, _)
StopEach(svc, keys) ==
    IF keys = {} THEN svc
    ELSE LET k == CHOOSE x \in keys : TRUE
         IN  StopEach(StopOptionChain(svc, k), keys \ {k})

StopAllOptionChains(svc) == StopEach(svc, ActiveKeys(svc))

\* A fetch that asks the backups before the primary.
FetchOrderBackupsFirst(svc) == svc.backup_accounts \o <<svc.primary_account>>

\* The accounts an expiry fetch may ask, in the order it asks them
\* (lines 179-212).
FetchOrder(svc) == <<svc.primary_account>> \o svc.backup_accounts

\* The calls an expiry fetch makes under the responses `resp`: the primary,
\* then each backup in list order until one answers success.
FetchCalls(svc, resp) ==
    LET order == FetchOrder(svc)
        ok == {i \in 1..Len(order) : resp[order[i]] # FetchFailed}
        n == IF ok = {} THEN Len(order) ELSE MinOf(ok)
    IN  [i \in 1..n |-> [account |-> order[i],
                          ok |-> resp[order[i]] # FetchFailed]]

\* start_option_chain(underlying) with expiry None.  `resp` is what each
\* account answers to the expiry query, `auth` whether a newly created
\* websocket manager authenticates within the wait.
StartOptionChain(svc, underlying, resp, auth) ==
    IF svc.primary_account = NoAccount
    THEN [svc EXCEPT !.fetched = <<>>, !.fetch_ok = FALSE]
    ELSE
    LET calls == FetchCalls(svc, resp)
        last == calls[Len(calls)]
        fetched == last.ok
        svc1 == [svc EXCEPT !.fetched = calls, !.fetch_ok = fetched]
        expiries == resp[last.account]
        count == IF expiries >= MaxStreamed THEN MaxStreamed ELSE expiries
        expiries_to_use == 1..count
        has_ws == underlying \in svc.websocket_managers
        fresh == {e \in expiries_to_use :
                     ManagerKey(underlying, e) \notin ActiveKeys(svc)}
    IN  IF ~fetched \/ fresh = {} \/ (~has_ws /\ ~auth)
        THEN svc1
        ELSE [svc1 EXCEPT
                !.active_managers = @ \cup
                    {[key |-> ManagerKey(underlying, e),
                      client |-> last.account] : e \in fresh},
                !.websocket_managers = @ \cup {underlying}]

\* A pop that reads the head of the list without removing it.
PopBackupKeepsList(backups) == backups

\* backup_accounts.pop(0) leaves the rest of the list (line 129).
PopBackup(backups) == Tail(backups)

Init ==
    /\ now = 0
    /\ dialect \in Dialects
    /\ triggered = FALSE
    /\ rowLock = NoThread
    /\ exec = [p \in Pos |-> InitRow]
    /\ orders = [p \in Pos |-> <<>>]
    /\ pc = [t \in Threads |-> "idle"]
    /\ reason = [t \in Threads |-> NoReason]
    /\ saw = [t \in Threads |-> FALSE]
    /\ queue = [t \in Threads |-> <<>>]
    /\ loaded = [t \in Threads |-> InitRow]
    /\ call = [t \in Threads |-> NullId]
    /\ claimedFrom = [t \in Threads |-> 0]
    /\ phase = "idle"
    /\ processed = FALSE
    /\ ev = NoEvent
    /\ freshWins = [p \in Pos |-> 0]
    /\ submitted = [p \in Pos |-> 0]
    /\ poller = <<>>
    /\ input = NoCall
    /\ output = NoCall
    /\ service = InitService

\* ------------------------------------------------- monitor_strategies
\* Positions check_supertrend_exit counts as open (lines 234-246).
OpenPositions ==
    {p \in Pos : /\ exec[p].status = "entered"
                 /\ exec[p].broker_order_status \notin {"rejected", "cancelled"}}

\* Where a thread goes when trigger_sequential_exit returns.
AfterExit(t) == IF t = Sched /\ phase = "signal" THEN "sweep" ELSE "idle"

\* A skip set that is never filled.
ProcessedThisCycleNever(trig, due) == FALSE

\* strategies_processed_this_cycle, built anew in every run (line 128): the
\* strategy is added when the first loop finds it due (lines 146-148).
ProcessedThisCycle(trig, due) == ~trig /\ due

\* First loop of a scheduler run (lines 126-153): the strategy is in the
\* query when it is not triggered; due stands for should_check_strategy and
\* fire for the exit signal check_supertrend_exit computes.
SchedTick ==
    /\ pc[Sched] = "idle"
    /\ \E due \in BOOLEAN, fire \in BOOLEAN :
        /\ processed' = ProcessedThisCycle(triggered, due)
        /\ IF ~triggered /\ due /\ OpenPositions # {} /\ fire
           THEN /\ pc' = [pc EXCEPT ![Sched] = "latch"]
                /\ reason' = [reason EXCEPT ![Sched] = SignalReason]
                /\ phase' = "signal"
           ELSE /\ pc' = [pc EXCEPT ![Sched] = "sweep"]
                /\ phase' = "sweep"
                /\ UNCHANGED reason
    /\ ev' = NoEvent
    /\ UNCHANGED <<now, dialect, input, output, service, dbVars, orders, saw, queue, loaded, call,
                   claimedFrom, freshWins, submitted, poller>>

\* Second loop (lines 157-186): the retry sweep.
SchedSweep ==
    /\ pc[Sched] = "sweep"
    /\ phase' = "sweep"
    /\ IF /\ triggered
          /\ ~processed
          /\ \E p \in Pos : PendingRetry(exec[p], now)
       THEN /\ pc' = [pc EXCEPT ![Sched] = "latch"]
            /\ reason' = [reason EXCEPT ![Sched] = SweepReason]
       ELSE /\ pc' = [pc EXCEPT ![Sched] = "idle"]
            /\ UNCHANGED reason
    /\ ev' = NoEvent
    /\ UNCHANGED <<now, dialect, input, output, service, dbVars, orders, saw, queue, loaded, call, claimedFrom,
                   processed, freshWins, submitted, poller>>

\* Another caller of trigger_sequential_exit.
ManualTrigger(t) ==
    /\ t # Sched
    /\ pc[t] = "idle"
    /\ \E r \in ManualReasons : reason' = [reason EXCEPT ![t] = r]
    /\ pc' = [pc EXCEPT ![t] = "latch"]
    /\ ev' = NoEvent
    /\ UNCHANGED <<now, dialect, input, output, service, dbVars, orders, saw, queue, loaded, call, claimedFrom,
                   schedVars, freshWins, submitted, poller>>

\* ---------------------------------------------- trigger_sequential_exit
\* Rows come back from the query in id order.
RECURSIVE Ascending(_)
Ascending(S) ==
    IF S = {} THEN <<>>
    ELSE LET m == CHOOSE x \in S : \A y \in S : x <= y
         IN  <<m>> \o Ascending(S \ {m})

\* A selection without the filter on broker_order_status.
CandidatesWithRefused(r) ==
    {p \in Pos :
        /\ IF IsRetryEvent(r)
           THEN exec[p].status \in {"entered", "exit_pending"}
           ELSE exec[p].status = "entered"
        /\ exec[p].exit_order_id = NullId}

\* Lines 618-649: the executions to close.
Candidates(r) ==
    {p \in Pos :
        /\ IF IsRetryEvent(r)
           THEN exec[p].status \in {"entered", "exit_pending"}
           ELSE exec[p].status = "entered"
        /\ exec[p].exit_order_id = NullId
        /\ exec[p].broker_order_status \notin {"rejected", "cancelled"}}

\* An ordering that closes the BUY positions before the SELL positions.
OrderedExecutionsBuyFirst(S) ==
    LET ids == Ascending(S)
        IsSell(p) == LegAction(p) = "SELL"
        IsBuy(p) == LegAction(p) = "BUY"
        NoLeg(p) == LegAction(p) = "NONE"
    IN  SelectSeq(ids, IsBuy) \o SelectSeq(ids, IsSell) \o SelectSeq(ids, NoLeg)

\* Lines 663-677: SELL positions, then BUY positions, then positions
\* without a leg.
OrderedExecutions(S) ==
    LET ids == Ascending(S)
        IsSell(p) == LegAction(p) = "SELL"
        IsBuy(p) == LegAction(p) = "BUY"
        NoLeg(p) == LegAction(p) = "NONE"
    IN  SelectSeq(ids, IsSell) \o SelectSeq(ids, IsBuy) \o SelectSeq(ids, NoLeg)

\* Line 596: the strategy is read again, with_for_update(nowait=False).
\* PostgreSQL blocks while another transaction holds the row; on SQLite the
\* clause is dropped and the read takes no lock.
LatchRead(t) ==
    /\ pc[t] = "latch"
    /\ dialect = "postgresql" => rowLock = NoThread
    /\ rowLock' = IF dialect = "postgresql" THEN t ELSE rowLock
    /\ saw' = [saw EXCEPT ![t] = triggered]
    /\ pc' = [pc EXCEPT ![t] = "decide"]
    /\ ev' = NoEvent
    /\ UNCHANGED <<now, dialect, input, output, service, triggered, exec, orders, reason, queue, loaded,
                   call, claimedFrom, schedVars, freshWins, submitted, poller>>

\* A decision that clears a latch it finds set.
LatchAfterDecideClears(seen, latch) == ~seen

\* The latch after lines 603-616: left alone when it was read as set,
\* set to true otherwise (line 613).
LatchAfterDecide(seen, latch) == IF seen THEN latch ELSE TRUE

\* Lines 603-616: return when the latch was read as set (rollback),
\* otherwise set it and commit.
LatchDecide(t) ==
    /\ pc[t] = "decide"
    /\ rowLock' = IF rowLock = t THEN NoThread ELSE rowLock
    /\ ev' = Event("latch", t, NoPos, InitRow, ~saw[t])
    /\ triggered' = LatchAfterDecide(saw[t], triggered)
    /\ IF saw[t]
       THEN /\ pc' = [pc EXCEPT ![t] = AfterExit(t)]
            /\ reason' = [reason EXCEPT ![t] = NoReason]
       ELSE /\ pc' = [pc EXCEPT ![t] = "select"]
            /\ UNCHANGED reason
    /\ saw' = [saw EXCEPT ![t] = FALSE]
    /\ UNCHANGED <<now, dialect, input, output, service, exec, orders, queue, loaded, call, claimedFrom,
                   schedVars,
                   freshWins, submitted, poller>>

\* Lines 618-679: query, filter and order the executions.
SelectExecutions(t) ==
    /\ pc[t] = "select"
    /\ LET ids == OrderedExecutions(Candidates(reason[t]))
       IN  /\ queue' = [queue EXCEPT ![t] = ids]
           /\ IF ids = <<>>
              THEN /\ pc' = [pc EXCEPT ![t] = AfterExit(t)]
                   /\ reason' = [reason EXCEPT ![t] = NoReason]
              ELSE /\ pc' = [pc EXCEPT ![t] = "claim"]
                   /\ UNCHANGED reason
    /\ ev' = NoEvent
    /\ UNCHANGED <<now, dialect, input, output, service, dbVars, orders, saw, loaded, call, claimedFrom,
                   schedVars,
                   freshWins, submitted, poller>>

\* The loop goes on to the next execution id, or the invocation ends.
Continue(t) ==
    /\ queue' = [queue EXCEPT ![t] = Tail(queue[t])]
    /\ loaded' = [loaded EXCEPT ![t] = InitRow]
    /\ call' = [call EXCEPT ![t] = NullId]
    /\ claimedFrom' = [claimedFrom EXCEPT ![t] = 0]
    /\ IF Tail(queue[t]) = <<>>
       THEN /\ pc' = [pc EXCEPT ![t] = AfterExit(t)]
            /\ reason' = [reason EXCEPT ![t] = NoReason]
       ELSE /\ pc' = [pc EXCEPT ![t] = "claim"]
            /\ UNCHANGED reason

\* Lines 691-698: the atomic claim, one UPDATE and its commit.
Claim(t) ==
    /\ pc[t] = "claim"
    /\ LET p == Head(queue[t])
           retry == IsRetryEvent(reason[t])
           row == IF retry
                  THEN AtomicClaimExitRetry(exec[p], reason[t], now)
                  ELSE AtomicClaimExit(exec[p], reason[t], now)
           claimed == row # exec[p]
       IN  /\ exec' = [exec EXCEPT ![p] = row]
           /\ ev' = Event(IF retry THEN "claim_retry" ELSE "claim_fresh",
                          t, p, exec[p], claimed)
           /\ freshWins' = IF ~retry /\ claimed
                           THEN [freshWins EXCEPT ![p] = @ + 1]
                           ELSE freshWins
           /\ IF claimed
              THEN /\ pc' = [pc EXCEPT ![t] = "refetch"]
                   /\ claimedFrom' = [claimedFrom EXCEPT ![t] = exec[p].exit_attempt_count]
                   /\ UNCHANGED <<reason, queue, loaded, call>>
              ELSE Continue(t)
    /\ UNCHANGED <<now, dialect, input, output, service, triggered, rowLock, orders, saw, schedVars,
                   submitted, poller>>

\* A test that lets the second attempt through unverified.
IsRetryAttemptAfterTwo(count) == count > 2

\* Lines 738-739: attempt_count = execution.exit_attempt_count or 0, and
\* the broker is asked first when attempt_count > 1.
IsRetryAttempt(count) == count > 1

\* Lines 700-739: the claimed execution is read into the session; a first
\* attempt goes straight to the order, a later one to the verification.
Refetch(t) ==
    /\ pc[t] = "refetch"
    /\ LET p == Head(queue[t])
       IN  /\ loaded' = [loaded EXCEPT ![t] = exec[p]]
           /\ pc' = [pc EXCEPT ![t] =
                  IF IsRetryAttempt(exec[p].exit_attempt_count)
                  THEN "verify" ELSE "inflight"]
    /\ ev' = NoEvent
    /\ UNCHANGED <<now, dialect, input, output, service, dbVars, orders, reason, saw, queue, call, claimedFrom,
                   schedVars, freshWins, submitted, poller>>

\* A commit of the session of t for position p.
Commit(t, p, op, obj) ==
    /\ exec' = [exec EXCEPT ![p] = Flush(exec[p], loaded[t], obj)]
    /\ ev' = Event(op, t, p, exec[p], TRUE)

\* Lines 739-767: verification before a retry.  The three books are read
\* from the broker; the order book lists the orders oldest or newest first.
Verify(t) ==
    /\ pc[t] = "verify"
    /\ LET p == Head(queue[t])
       IN  \E pr \in Responses(LiveQuantity(p, orders[p]), 0),
              ob \in Responses(OrderBookOf(p, orders[p]), <<>>)
                       \cup Responses(Reverse(OrderBookOf(p, orders[p])), <<>>),
              tb \in Responses(TradesOf(p, orders[p]), <<>>) :
            LET v == VerifyExitOrderAtBroker(p, pr, ob, tb)
            IN  IF ~v.can_place_exit
                THEN IF v.order_status = "complete"
                     THEN /\ exec' = [exec EXCEPT ![p] = Flush(exec[p], loaded[t],
                                MarkExitConfirmed(loaded[t], "complete", v.order_id, now))]
                          /\ ev' = VerifyEvent("confirmed", t, p, exec[p], TRUE, v)
                          /\ Continue(t)
                     ELSE IF v.position_quantity = 0
                     THEN /\ exec' = [exec EXCEPT ![p] = Flush(exec[p], loaded[t],
                                DirectExit(loaded[t], now))]
                          /\ ev' = VerifyEvent("direct_exit", t, p, exec[p], TRUE, v)
                          /\ Continue(t)
                     ELSE /\ Continue(t)
                          /\ ev' = VerifyEvent("skip", t, p, exec[p], FALSE, v)
                          /\ UNCHANGED exec
                ELSE /\ pc' = [pc EXCEPT ![t] = "inflight"]
                     /\ ev' = VerifyEvent("verified", t, p, exec[p], TRUE, v)
                     /\ UNCHANGED <<exec, reason, queue, loaded, call, claimedFrom>>
    /\ UNCHANGED <<now, dialect, input, output, service, triggered, rowLock, orders, saw, schedVars,
                   freshWins, submitted, poller>>

\* Lines 776-789: the one call of place_order_with_freeze_check for the
\* claimed position.  The order request reaches the broker, which accepts
\* it (a new open order) or refuses it.
BrokerReceive(t) ==
    /\ pc[t] = "inflight"
    /\ LET p == Head(queue[t])
           id == OrderId(p, Len(orders[p]) + 1)
       IN  \/ /\ Len(orders[p]) < MaxOrders
              /\ orders' = [orders EXCEPT ![p] = Append(@, [id |-> id, status |-> "open"])]
              /\ call' = [call EXCEPT ![t] = id]
           \/ /\ call' = [call EXCEPT ![t] = NullId]
              /\ UNCHANGED orders
    /\ submitted' = [submitted EXCEPT ![Head(queue[t])] = @ + 1]
    /\ pc' = [pc EXCEPT ![t] = "return"]
    /\ ev' = NoEvent
    /\ UNCHANGED <<now, dialect, input, output, service, dbVars, reason, saw, queue, loaded,
                   claimedFrom, schedVars, freshWins, poller>>

\* Lines 776-820: the call returns success with the order id, or an error
\* (also when the broker accepted the order and the answer was lost or timed
\* out); the execution is then marked.
Return(t) ==
    /\ pc[t] = "return"
    /\ LET p == Head(queue[t])
       IN  \/ /\ call[t] # NullId
              /\ Commit(t, p, "success", MarkExitSuccess(loaded[t], call[t], now))
              /\ pc' = [pc EXCEPT ![t] = "enqueue"]
              /\ UNCHANGED <<reason, queue, loaded, call, claimedFrom>>
           \/ /\ Commit(t, p, "failed", MarkExitFailed(loaded[t], "error", TRUE, now))
              /\ Continue(t)
    /\ UNCHANGED <<now, dialect, input, output, service, triggered, rowLock, orders, saw, schedVars,
                   freshWins, submitted, poller>>

\* Lines 797-801 for a response with status 'success' that has no 'orderid'
\* key: order_id = response.get('orderid') is None, and so is the order id
\* given to mark_exit_success and to the poller.
ReturnNoOrderId(t) ==
    /\ pc[t] = "return"
    /\ call[t] # NullId
    /\ Commit(t, Head(queue[t]), "success", MarkExitSuccess(loaded[t], NullId, now))
    /\ call' = [call EXCEPT ![t] = NullId]
    /\ pc' = [pc EXCEPT ![t] = "enqueue"]
    /\ UNCHANGED <<now, dialect, input, output, service, triggered, rowLock, orders, saw, schedVars,
                   reason, queue, loaded, claimedFrom, freshWins, submitted, poller>>

\* order_status_poller.add_order(execution_id, account, order_id,
\* strategy_name) as called at lines 805-810.  The account and the strategy
\* name are those of the execution, so the entry is told by the execution
\* and the order id.
PollerEntry(p, orderId) == [execution_id |-> p, order_id |-> orderId]

\* Lines 804-812: after mark_exit_success the order is handed to the
\* poller, and the loop goes on.
Enqueue(t) ==
    /\ pc[t] = "enqueue"
    /\ poller' = Append(poller, PollerEntry(Head(queue[t]), call[t]))
    /\ Continue(t)
    /\ ev' = Event("add_order", t, Head(queue[t]), exec[Head(queue[t])], TRUE)
    /\ UNCHANGED <<now, dialect, input, output, service, dbVars, orders, saw, schedVars,
                   freshWins, submitted>>

\* -------------------------------------------------------- environment
\* An open order is filled, or rejected by the exchange.
BrokerFill(p) ==
    /\ \E k \in 1..Len(orders[p]) :
        /\ orders[p][k].status = "open"
        /\ orders' = [orders EXCEPT ![p][k].status = "complete"]
    /\ ev' = NoEvent
    /\ UNCHANGED <<now, dialect, input, output, service, dbVars, pc, localVars, schedVars, freshWins, submitted, poller>>

BrokerReject(p) ==
    /\ \E k \in 1..Len(orders[p]) :
        /\ orders[p][k].status = "open"
        /\ orders' = [orders EXCEPT ![p][k].status = "rejected"]
    /\ ev' = NoEvent
    /\ UNCHANGED <<now, dialect, input, output, service, dbVars, pc, localVars, schedVars, freshWins, submitted, poller>>

\* The latch is cleared from outside for the next trading episode.
ExternalReset ==
    /\ triggered
    /\ triggered' = FALSE
    /\ ev' = NoEvent
    /\ UNCHANGED <<now, dialect, input, output, service, rowLock, exec, orders, pc, localVars, schedVars,
                   freshWins, submitted, poller>>

PassTime ==
    /\ now + TimeStep <= MaxTime
    /\ now' = now + TimeStep
    /\ ev' = NoEvent
    /\ UNCHANGED <<dialect, input, output, service, dbVars, orders, pc, localVars, schedVars, freshWins, submitted, poller>>

Next ==
    \/ SchedTick
    \/ SchedSweep
    \/ \E t \in Threads : ManualTrigger(t)
    \/ \E t \in Threads : LatchRead(t)
    \/ \E t \in Threads : LatchDecide(t)
    \/ \E t \in Threads : SelectExecutions(t)
    \/ \E t \in Threads : Claim(t)
    \/ \E t \in Threads : Refetch(t)
    \/ \E t \in Threads : Verify(t)
    \/ \E t \in Threads : BrokerReceive(t)
    \/ \E t \in Threads : Return(t)
    \/ \E t \in Threads : Enqueue(t)
    \/ \E p \in Pos : BrokerFill(p)
    \/ \E p \in Pos : BrokerReject(p)
    \/ ExternalReset
    \/ PassTime

Spec == Init /\ [][Next]_vars

\* ------------------------------------------------------------ progress
\* A step of the invocation of trigger_sequential_exit that thread t runs.
ThreadStep(t) ==
    \/ LatchRead(t)
    \/ LatchDecide(t)
    \/ SelectExecutions(t)
    \/ Claim(t)
    \/ Refetch(t)
    \/ Verify(t)
    \/ BrokerReceive(t)
    \/ Return(t)
    \/ Enqueue(t)

\* The interval job (lines 86-94) is run again every minute and goes through
\* both loops; an invocation that has started runs to its end (a broker
\* call returns or times out); the clock advances.  Nothing is assumed
\* about the callers outside the scheduler, the reset of the latch or the
\* broker filling orders.
FairSpec ==
    /\ Spec
    /\ WF_vars(SchedTick \/ SchedSweep)
    /\ \A t \in Threads : WF_vars(ThreadStep(t))
    /\ WF_vars(PassTime)

\* ------------------------------------------- one invocation at a time
\* The callers of trigger_sequential_exit take turns: an invocation starts
\* when no other one is running.
AllIdle == \A t \in Threads : pc[t] = "idle"

NextSeq ==
    \/ AllIdle /\ SchedTick
    \/ SchedSweep
    \/ \E t \in Threads : AllIdle /\ ManualTrigger(t)
    \/ \E t \in Threads : LatchRead(t)
    \/ \E t \in Threads : LatchDecide(t)
    \/ \E t \in Threads : SelectExecutions(t)
    \/ \E t \in Threads : Claim(t)
    \/ \E t \in Threads : Refetch(t)
    \/ \E t \in Threads : Verify(t)
    \/ \E t \in Threads : BrokerReceive(t)
    \/ \E t \in Threads : Return(t)
    \/ \E t \in Threads : Enqueue(t)
    \/ \E p \in Pos : BrokerFill(p)
    \/ \E p \in Pos : BrokerReject(p)
    \/ ExternalReset
    \/ PassTime

SpecSeq == Init /\ [][NextSeq]_vars

\* ------------------------------------ the exit_order_manager calls alone
\* The functions of exit_order_manager.py called by any caller at any
\* instant.  A claim is one UPDATE, so concurrent claims are claims in some
\* order; a mark_* call is made on the object its caller has just read, by
\* a caller that holds a claim (the row has left entered).
ClaimMaxTime == 50
ClaimStep == 10

\* Every call names one row (WHERE id = execution_id); the calls are made
\* on the first one.
CalledPos == CHOOSE p \in Pos : \A q \in Pos : p <= q

CallClaimExit(p) ==
    /\ LET row == AtomicClaimExit(exec[p], SignalReason, now)
       IN  /\ exec' = [exec EXCEPT ![p] = row]
           /\ ev' = Event("claim_fresh", NoThread, p, exec[p],
                          ClaimExitRowcount(exec[p]) > 0)
           /\ freshWins' = IF row # exec[p]
                           THEN [freshWins EXCEPT ![p] = @ + 1]
                           ELSE freshWins
    /\ UNCHANGED <<now, dialect, input, output, service, triggered, rowLock, orders, pc, localVars, schedVars,
                   submitted, poller>>

CallClaimExitRetry(p) ==
    /\ LET row == AtomicClaimExitRetry(exec[p], SweepReason, now)
       IN  /\ exec' = [exec EXCEPT ![p] = row]
           /\ ev' = Event("claim_retry", NoThread, p, exec[p],
                          ClaimRetryRowcount(exec[p], now) > 0)
    /\ UNCHANGED <<now, dialect, input, output, service, triggered, rowLock, orders, pc, localVars,
                   schedVars, freshWins, submitted, poller>>

\* A claim whose execute or commit raises: the except branch rolls back and
\* returns False (lines 86-92, 136-142).
CallClaimExitFails(p) ==
    /\ LET pending == AtomicClaimExit(exec[p], SignalReason, now)
       IN  exec' = [exec EXCEPT ![p] = RolledBack(exec[p], pending)]
    /\ ev' = Event("claim_fresh_error", NoThread, p, exec[p], FALSE)
    /\ UNCHANGED <<now, dialect, input, output, service, triggered, rowLock, orders, pc, localVars,
                   schedVars, freshWins, submitted, poller>>

CallClaimExitRetryFails(p) ==
    /\ LET pending == AtomicClaimExitRetry(exec[p], SweepReason, now)
       IN  exec' = [exec EXCEPT ![p] = RolledBack(exec[p], pending)]
    /\ ev' = Event("claim_retry_error", NoThread, p, exec[p], FALSE)
    /\ UNCHANGED <<now, dialect, input, output, service, triggered, rowLock, orders, pc, localVars,
                   schedVars, freshWins, submitted, poller>>

\* A mark_* call on the object just read: the commit writes obj.
CallMark(p, op, obj) ==
    /\ exec[p].exit_attempt_count > 0
    /\ exec' = [exec EXCEPT ![p] = Flush(exec[p], exec[p], obj)]
    /\ ev' = Event(op, NoThread, p, exec[p], TRUE)
    /\ UNCHANGED <<now, dialect, input, output, service, triggered, rowLock, orders, pc, localVars,
                   schedVars, freshWins, submitted, poller>>

CallMarkExitSuccess(p) ==
    \E k \in 1..MaxOrders :
        CallMark(p, "success", MarkExitSuccess(exec[p], OrderId(p, k), now))

CallMarkExitFailed(p) ==
    CallMark(p, "failed", MarkExitFailed(exec[p], "error", TRUE, now))

CallMarkExitConfirmed(p) ==
    \E id \in {NullId} \cup {OrderId(p, k) : k \in 1..MaxOrders} :
        CallMark(p, "confirmed", MarkExitConfirmed(exec[p], "complete", id, now))

ClockTick ==
    /\ now + ClaimStep <= ClaimMaxTime
    /\ now' = now + ClaimStep
    /\ ev' = NoEvent
    /\ UNCHANGED <<dialect, input, output, service, dbVars, orders, pc, localVars, schedVars, freshWins, submitted, poller>>

NextClaims ==
    \/ CallClaimExit(CalledPos)
    \/ CallClaimExitRetry(CalledPos)
    \/ CallClaimExitFails(CalledPos)
    \/ CallClaimExitRetryFails(CalledPos)
    \/ CallMarkExitSuccess(CalledPos)
    \/ CallMarkExitFailed(CalledPos)
    \/ CallMarkExitConfirmed(CalledPos)
    \/ ClockTick

SpecClaims == Init /\ [][NextClaims]_vars

\* --------------------------------------------- functions on their own
\* The state of the other variables while one function is examined; the
\* functions examined alone do not touch the database.
IdleState ==
    /\ dialect = "sqlite"
    /\ triggered = FALSE
    /\ rowLock = NoThread
    /\ orders = [p \in Pos |-> <<>>]
    /\ pc = [t \in Threads |-> "idle"]
    /\ reason = [t \in Threads |-> NoReason]
    /\ saw = [t \in Threads |-> FALSE]
    /\ queue = [t \in Threads |-> <<>>]
    /\ loaded = [t \in Threads |-> InitRow]
    /\ call = [t \in Threads |-> NullId]
    /\ claimedFrom = [t \in Threads |-> 0]
    /\ phase = "idle"
    /\ processed = FALSE
    /\ ev = NoEvent
    /\ freshWins = [p \in Pos |-> 0]
    /\ submitted = [p \in Pos |-> 0]
    /\ poller = <<>>
    /\ service = InitService

Untouched ==
    UNCHANGED <<now, dialect, dbVars, orders, pc, localVars, schedVars, ev,
                freshWins, submitted, poller, input, service>>

\* ------------------------------ the order of the executions of one batch
\* Lines 663-683 of trigger_sequential_exit on any set of candidates with
\* ids 1..NumLegs: the executions are ordered, then the loop takes them one
\* by one; an iteration makes at most one order submission.
NumLegs == 6

InitOrder ==
    /\ IdleState
    /\ now = 0
    /\ exec = [p \in Pos |-> InitRow]
    /\ input \in {[fn |-> "ordered_executions", ids |-> S] : S \in SUBSET (1..NumLegs)}
    /\ output = NoCall

OrderBatch ==
    /\ input.fn = "ordered_executions"
    /\ output = NoCall
    /\ output' = [fn |-> "ordered_executions",
                  left |-> OrderedExecutions(input.ids), done |-> <<>>]
    /\ Untouched

ProcessExecution ==
    /\ output # NoCall
    /\ output.fn = "ordered_executions"
    /\ output.left # <<>>
    /\ output' = [output EXCEPT !.left = Tail(@), !.done = Append(@, Head(output.left))]
    /\ Untouched

NextOrder == OrderBatch \/ ProcessExecution

SpecOrder == InitOrder /\ [][NextOrder]_vars

\* ------------------------------------------------------- the exit signal
\* The indicator on any short series of completed bars.  A bar is its close
\* and the basic bands get_basic_bands gives for it; the bands are NaN on
\* the first bars, where the ATR is not defined yet.
NumBars == 3
MaxPrice == 1
NaN == 0 - 1
Prices == 0..MaxPrice
ExitTypes == {"breakout", "breakdown"}

\* Comparisons of floats: false when a side is NaN.
Gt(a, b) == a # NaN /\ b # NaN /\ a > b
Lt(a, b) == Gt(b, a)

Bar(c, u, l) == [close |-> c, upper |-> u, lower |-> l]
BarsWithBands == {Bar(c, u, l) : c \in Prices, u \in Prices, l \in Prices}
BarsWithoutBands == {Bar(c, NaN, NaN) : c \in Prices}

\* Series of NumBars bars: the bands are ordered, and undefined on a
\* prefix that ends before the last two bars.
Series ==
    {bars \in [1..NumBars -> BarsWithBands \cup BarsWithoutBands] :
        /\ \A i \in 1..NumBars : Gt(bars[i].lower, bars[i].upper) = FALSE
        /\ \A i \in 2..NumBars :
              bars[i] \in BarsWithoutBands => bars[i - 1] \in BarsWithoutBands
        /\ \A i \in (NumBars - 1)..NumBars : bars[i] \in BarsWithBands}

\* The loop of get_final_bands_nb from bar i on (bar 1 keeps direction 1):
\* dir holds the directions of the bars before i, upper and lower the bands
\* as the loop has rewritten them so far.
RECURSIVE FinalBandsFrom(_, _, _, _, _)
FinalBandsFrom(close, upper, lower, dir, i) ==
    IF i > Len(close) THEN dir
    ELSE IF Gt(close[i], upper[i - 1])
    THEN FinalBandsFrom(close, upper, lower, Append(dir, 1), i + 1)
    ELSE IF Lt(close[i], lower[i - 1])
    THEN FinalBandsFrom(close, upper, lower, Append(dir, -1), i + 1)
    ELSE LET d == dir[i - 1]
             lower2 == IF d > 0 /\ Lt(lower[i], lower[i - 1])
                       THEN [lower EXCEPT ![i] = lower[i - 1]] ELSE lower
             upper2 == IF d < 0 /\ Gt(upper[i], upper[i - 1])
                       THEN [upper EXCEPT ![i] = upper[i - 1]] ELSE upper
         IN  FinalBandsFrom(close, upper2, lower2, Append(dir, d), i + 1)

\* direction, as get_final_bands_nb returns it.
GetFinalBandsNb(close, upper, lower) ==
    FinalBandsFrom(close, upper, lower, <<1>>, 2)

\* calculate_supertrend on the bars.
CalculateSupertrend(bars) ==
    GetFinalBandsNb([i \in 1..Len(bars) |-> bars[i].close],
                    [i \in 1..Len(bars) |-> bars[i].upper],
                    [i \in 1..Len(bars) |-> bars[i].lower])

\* Lines 288-320 of check_supertrend_exit: should_exit.
ShouldExit(exit_type, direction) ==
    LET latest_direction == direction[Len(direction)]
    IN  \/ exit_type = "breakout" /\ latest_direction = -1
        \/ exit_type = "breakdown" /\ latest_direction = 1

InitSignal ==
    /\ IdleState
    /\ now = 0
    /\ exec = [p \in Pos |-> InitRow]
    /\ input \in {[fn |-> "check_supertrend_exit", bars |-> b, exit_type |-> x] :
                    b \in Series, x \in ExitTypes}
    /\ output = NoCall

\* check_supertrend_exit for a strategy with open positions and enough
\* bars: invoked tells whether trigger_sequential_exit is called.
CheckSupertrendExit ==
    /\ input.fn = "check_supertrend_exit"
    /\ output = NoCall
    /\ OpenPositions # {}
    /\ LET direction == CalculateSupertrend(input.bars)
       IN  output' = [fn |-> "check_supertrend_exit",
                      direction |-> direction,
                      invoked |-> ShouldExit(input.exit_type, direction)]
    /\ Untouched

NextSignal == CheckSupertrendExit

SpecSignal == InitSignal /\ [][NextSignal]_vars

\* -------------------------------------------- the verification alone
\* verify_exit_order_at_broker on any answers of the three books.  The
\* position book gives the signed quantity of the symbol; an entry of the
\* order book or the trade book is for the symbol and the exit action, for
\* the symbol and the entry action, or for another symbol; an exit trade is
\* for the position's quantity or for less.
MaxBook == 2
MaxTrades == 1
OtherSymbol == NoPos
OrderStatuses == {"open", "complete", "cancelled", "rejected"}

SeqsUpTo(S, n) == UNION {[1..k -> S] : k \in 0..n}

BookKeys(p) ==
    {[symbol |-> p, transaction_type |-> ExitAction(p)],
     [symbol |-> p, transaction_type |-> EntryAction(p)],
     [symbol |-> OtherSymbol, transaction_type |-> ExitAction(p)]}

OrderBooks(p) ==
    LET Entries == {[symbol |-> k.symbol, transaction_type |-> k.transaction_type,
                     order_status |-> st] : k \in BookKeys(p), st \in OrderStatuses}
        Numbered(b) == [k \in 1..Len(b) |->
                          [symbol |-> b[k].symbol,
                           transaction_type |-> b[k].transaction_type,
                           order_status |-> b[k].order_status,
                           orderid |-> OrderId(p, k)]]
    IN  {Numbered(b) : b \in SeqsUpTo(Entries, MaxBook)}

TradeBooks(p) ==
    LET Trade(k, q) == [symbol |-> k.symbol, transaction_type |-> k.transaction_type,
                        quantity |-> q]
        Entries == {Trade(k, Quantity(p)) : k \in BookKeys(p)}
                     \cup {Trade([symbol |-> p, transaction_type |-> ExitAction(p)],
                                 Quantity(p) - 1)}
        Numbered(b) == [k \in 1..Len(b) |->
                          [symbol |-> b[k].symbol,
                           transaction_type |-> b[k].transaction_type,
                           quantity |-> b[k].quantity,
                           orderid |-> OrderId(p, k)]]
    IN  {Numbered(b) : b \in SeqsUpTo(Entries, MaxTrades)}

PositionBooks(p) == {0, Quantity(p), 0 - Quantity(p)}

AnyResponse(D, empty) ==
    {[kind |-> "success", data |-> d] : d \in D}
        \cup {[kind |-> "error", data |-> empty], [kind |-> "raise", data |-> empty]}

InitVerify ==
    /\ IdleState
    /\ now = 0
    /\ exec = [p \in Pos |-> InitRow]
    /\ input \in {[fn |-> "verify_exit_order_at_broker", pos |-> CalledPos,
                    pr |-> pr, ob |-> ob, tb |-> tb] :
                    pr \in AnyResponse(PositionBooks(CalledPos), 0),
                    ob \in AnyResponse(OrderBooks(CalledPos), <<>>),
                    tb \in AnyResponse(TradeBooks(CalledPos), <<>>)}
    /\ output = NoCall

CallVerify ==
    /\ input.fn = "verify_exit_order_at_broker"
    /\ output = NoCall
    /\ output' = [fn |-> "verify_exit_order_at_broker",
                  result |-> VerifyExitOrderAtBroker(input.pos, input.pr,
                                                     input.ob, input.tb)]
    /\ Untouched

NextVerify == CallVerify

SpecVerify == InitVerify /\ [][NextVerify]_vars

\* ---------------------------------------------- the eligibility alone
\* can_attempt_exit on any row at any instant: the status is one of the
\* three of the exit life cycle or another one, the instants are those of
\* the clock.
Statuses == {"entered", "exit_pending", "exited", "failed"}
Instants == {t \in 0..MaxTime : t % TimeStep = 0}

Rows ==
    {[InitRow EXCEPT !.status = st, !.exit_order_id = id,
                     !.exit_attempt_count = n, !.exit_pending_since = since,
                     !.exit_retry_after = after] :
        st \in Statuses, id \in {NullId, OrderId(CalledPos, 1)},
        n \in 0..MAX_EXIT_ATTEMPTS, since \in {NullTime} \cup Instants,
        after \in {NullTime} \cup Instants}

InitEligibility ==
    /\ IdleState
    /\ now \in Instants
    /\ \E row \in Rows :
        /\ exec = [p \in Pos |-> IF p = CalledPos THEN row ELSE InitRow]
        /\ input = [fn |-> "can_attempt_exit", row |-> row]
    /\ output = NoCall

\* The call reads the row and the clock and writes nothing.
CallCanAttemptExit ==
    /\ input.fn = "can_attempt_exit"
    /\ output = NoCall
    /\ output' = [fn |-> "can_attempt_exit",
                  can_attempt |-> CanAttemptExit(exec[CalledPos], now)]
    /\ Untouched

NextEligibility == CallCanAttemptExit

SpecEligibility == InitEligibility /\ [][NextEligibility]_vars

\* ---------------------------------------------------------------- claims
LiveOrders(p) ==
    {k \in 1..Len(orders[p]) : orders[p][k].status \in {"open", "complete"}}

\* C1: the broker never holds more than one exit order of a position that
\* is open or filled (an order it accepted and did not reject or cancel).
AtMostOneExitOrder == \A p \in Pos : Cardinality(LiveOrders(p)) <= 1

\* C2: of the atomic_claim_exit calls made on a position exactly one returns
\* True: the first one, which takes it out of entered; all others return
\* False.
ExactlyOneFreshClaim ==
    \A p \in Pos : freshWins[p] = IF exec[p].status = "entered" THEN 0 ELSE 1

\* C2 witness: a second caller's atomic_claim_exit on a position it had
\* selected while entered has just returned False.
SecondFreshClaimLost ==
    /\ ev.op = "claim_fresh"
    /\ ~ev.ok
    /\ ev.before.exit_order_id = NullId
    /\ freshWins[ev.pos] = 1

IsClaim == ev.op \in {"claim_fresh", "claim_retry"}

\* C3: a claim call on a row whose exit_order_id is set returns False and
\* leaves the row as it was.
NoClaimOnceOrderId ==
    (IsClaim /\ ev.before.exit_order_id # NullId)
        => (~ev.ok /\ exec[ev.pos] = ev.before)

\* C3 witness: a claim was called on a row with an exit_order_id.
ClaimCalledWithOrderId ==
    /\ IsClaim
    /\ ev.before.exit_order_id # NullId
    /\ ~ev.ok

\* C4: exit_attempt_count never exceeds MAX_EXIT_ATTEMPTS.
AttemptsBounded ==
    \A p \in Pos : exec[p].exit_attempt_count <= MAX_EXIT_ATTEMPTS

\* C4 witness: a retry claim was refused on a row that has used all its
\* attempts and whose cooldown has elapsed.
RetryRefusedAtCeiling ==
    /\ ev.op = "claim_retry"
    /\ ~ev.ok
    /\ ev.before.exit_attempt_count = MAX_EXIT_ATTEMPTS
    /\ ev.before.exit_retry_after <= ev.at
    /\ ev.before.exit_order_id = NullId

\* C5: right after a mark_exit_failed commit the row is exit_pending and has
\* no exit_order_id.
FailedLeavesPendingWithoutOrder ==
    ev.op = "failed"
        => /\ exec[ev.pos].status = "exit_pending"
           /\ exec[ev.pos].exit_order_id = NullId

\* C6: a retry claim on an exit_pending row fails before exit_retry_after;
\* once exit_retry_after has elapsed, with no exit_order_id and attempts
\* left, it succeeds, adds one attempt and sets exit_retry_after to the
\* instant of the call plus the cooldown.
RetryClaimContract ==
    (ev.op = "claim_retry" /\ ev.before.status = "exit_pending")
        => /\ ev.at < ev.before.exit_retry_after
                => (~ev.ok /\ exec[ev.pos] = ev.before)
           /\ ( /\ ev.before.exit_retry_after <= ev.at
                /\ ev.before.exit_order_id = NullId
                /\ ev.before.exit_attempt_count < MAX_EXIT_ATTEMPTS )
                => /\ ev.ok
                   /\ exec[ev.pos].exit_attempt_count
                        = ev.before.exit_attempt_count + 1
                   /\ exec[ev.pos].exit_retry_after
                        = ev.at + EXIT_RETRY_DELAY_SECONDS

\* C6 witnesses: a retry claim refused during the cooldown, and one granted
\* at the very instant the cooldown ends.
RetryRefusedEarly ==
    /\ ev.op = "claim_retry"
    /\ ev.before.status = "exit_pending"
    /\ ev.at < ev.before.exit_retry_after
    /\ ~ev.ok

RetryGrantedWhenDue ==
    /\ ev.op = "claim_retry"
    /\ ev.before.exit_retry_after = ev.at
    /\ ev.ok

Rank(st) == CASE st = "entered" -> 0 [] st = "exit_pending" -> 1 [] OTHER -> 2

\* C7: no step moves a status backwards along entered, exit_pending, exited.
StatusOnlyForward ==
    [][\A p \in Pos : Rank(exec'[p].status) >= Rank(exec[p].status)]_vars

\* C8: no step changes the status of an exited row.
ExitedIsTerminal ==
    [][\A p \in Pos : exec[p].status = "exited" => exec'[p].status = "exited"]_vars

\* C9: no step changes or clears an exit_order_id that is set.
OrderIdSetOnce ==
    [][\A p \in Pos : exec[p].exit_order_id # NullId
            => exec'[p].exit_order_id = exec[p].exit_order_id]_vars

\* C10: an invocation sets the latch only when the latch is false at that
\* moment, so of the invocations racing from triggered = false one sets it.
OneLatchWriter == (ev.op = "latch" /\ ev.ok) => ~ev.latch

\* Place of an entry action in the closing order.
LegRank(p) ==
    CASE EntryAction(p) = "SELL" /\ LegAction(p) # "NONE" -> 0
      [] LegAction(p) = "NONE" -> 2
      [] OTHER -> 1

\* C11: in one batch every SELL-entry position is processed (its closing BUY
\* order submitted) before every BUY-entry position, and positions without
\* a leg come last.
SellEntriesFirst ==
    (output # NoCall /\ output.fn = "ordered_executions")
        => \A i, j \in 1..Len(output.done) :
              i < j => LegRank(output.done[i]) <= LegRank(output.done[j])

\* C11 witness: the batch {SELL, SELL, BUY} has been processed to the end,
\* both SELL entries before the BUY entry.
SellSellBuyProcessed ==
    /\ output # NoCall
    /\ output.fn = "ordered_executions"
    /\ input.ids = {1, 2, 6}
    /\ output.left = <<>>
    /\ output.done = <<2, 6, 1>>

\* A submission made by the scheduler's invocation has just failed and left
\* the position awaiting a retry with attempts left, the cool-down ends
\* within the time the clock covers, and nobody but the scheduler is at
\* work: no other caller is inside the coordinator and the latch has not
\* been cleared.
FailedAwaitingRetry ==
    /\ ev.op = "failed"
    /\ ev.thread = Sched
    /\ exec[ev.pos].status = "exit_pending"
    /\ exec[ev.pos].exit_retry_after # NullTime
    /\ exec[ev.pos].exit_retry_after <= MaxTime
    /\ exec[ev.pos].exit_order_id = NullId
    /\ exec[ev.pos].exit_attempt_count < MAX_EXIT_ATTEMPTS
    /\ triggered
    /\ \A t \in Threads \ {Sched} : pc[t] = "idle"

\* An invocation made by the retry sweep wins a retry claim, or somebody
\* other than the scheduler steps in.
RetryClaimedOrIntervention ==
    \/ /\ ev.op = "claim_retry"
       /\ ev.ok
       /\ ev.thread = Sched
    \/ ~triggered
    \/ \E t \in Threads \ {Sched} : pc[t] # "idle"

\* C12: after a failed submission that leaves the position exit_pending
\* without order id and with attempts left, and with the scheduler going on
\* and nobody stepping in, an invocation made by the retry sweep eventually
\* wins a retry claim.
FailedEventuallyRetried == FailedAwaitingRetry ~> RetryClaimedOrIntervention

\* Directions as calculate_supertrend documents them: 1 for bullish (the
\* close went above the upper band), -1 for bearish.
Bullish(d) == d = 1
Bearish(d) == d = -1
Checked == output # NoCall /\ output.fn = "check_supertrend_exit"
LatestDirection == output.direction[Len(output.direction)]
PreviousDirection == output.direction[Len(output.direction) - 1]

\* C13: in breakout mode the coordinator is invoked when the direction of
\* the latest bar is bullish and not when it is bearish; in breakdown mode
\* it is invoked when the direction is bearish and not when it is bullish.
SignalPolarity ==
    Checked =>
        /\ input.exit_type = "breakout" =>
              /\ Bullish(LatestDirection) => output.invoked
              /\ Bearish(LatestDirection) => ~output.invoked
        /\ input.exit_type = "breakdown" =>
              /\ Bearish(LatestDirection) => output.invoked
              /\ Bullish(LatestDirection) => ~output.invoked

\* C14: when the direction of the latest bar is that of the bar before it,
\* the coordinator is not invoked.
SignalOnlyOnCrossing ==
    (Checked /\ LatestDirection = PreviousDirection) => ~output.invoked

\* C15: when the verification of a retry attempt reports position quantity
\* 0 for a position that is exit_pending, the position is exited by that
\* step, the step is one of the two that count a success, and the
\* invocation goes on to the next position without an order for this one.
ClosedAtBrokerExitsDirectly ==
    (ev.qty = 0 /\ ev.before.status = "exit_pending")
        => /\ ev.op \in {"confirmed", "direct_exit"}
           /\ exec[ev.pos].status = "exited"
           /\ pc[ev.thread] \notin {"verify", "inflight", "return"}
           /\ \A k \in 1..Len(queue[ev.thread]) : queue[ev.thread][k] # ev.pos

\* C15 witness: a verification that found quantity 0 has closed an
\* exit_pending position whose order the broker never received.
ClosedWithoutOrder ==
    /\ ev.qty = 0
    /\ ev.before.status = "exit_pending"
    /\ ev.before.exit_attempt_count > 1
    /\ exec[ev.pos].status = "exited"
    /\ orders[ev.pos] = <<>>

\* C16: when the order call fails, the position is exit_pending without
\* order id, its attempt count is one more than it was before the claim of
\* this invocation, and exit_retry_after is the instant of the failure plus
\* EXIT_RETRY_DELAY_SECONDS.
FailureRearmsOnce ==
    [][ev'.op = "failed" =>
          /\ exec'[ev'.pos].status = "exit_pending"
          /\ exec'[ev'.pos].exit_order_id = NullId
          /\ exec'[ev'.pos].exit_attempt_count = claimedFrom[ev'.thread] + 1
          /\ exec'[ev'.pos].exit_retry_after = now + EXIT_RETRY_DELAY_SECONDS]_vars

\* What the verification under examination was given and found.
Verified == output # NoCall /\ output.fn = "verify_exit_order_at_broker"
IsExitEntry(e) ==
    e.symbol = input.pos /\ e.transaction_type = ExitAction(input.pos)
ReportedQuantity == IF input.pr.kind = "success" THEN Abs(input.pr.data) ELSE 0
ExitOrdersSeen == {k \in 1..Len(input.ob.data) : IsExitEntry(input.ob.data[k])}
ExitTradesSeen ==
    {k \in 1..Len(input.tb.data) :
        /\ IsExitEntry(input.tb.data[k])
        /\ Abs(input.tb.data[k].quantity) >= Quantity(input.pos)}
\* The queries the function gets to make.
OrderBookQueried == input.pr.kind # "raise" /\ ReportedQuantity # 0
TradeBookQueried ==
    OrderBookQueried /\ input.ob.kind # "raise" /\ ExitOrdersSeen = {}

\* C17: when a query the verification makes raises or answers with a
\* status other than success, can_place_exit is False.
VerifyFailsClosed ==
    (/\ Verified
     /\ \/ input.pr.kind # "success"
        \/ OrderBookQueried /\ input.ob.kind # "success"
        \/ TradeBookQueried /\ input.tb.kind # "success")
        => ~output.result.can_place_exit

\* C18: when no query raises, the first of these rules that applies gives
\* the result: quantity 0, not allowed and complete; an exit order for the
\* symbol in the order book, allowed exactly when the first such order is
\* cancelled or rejected; an exit trade for the symbol of at least the
\* position's quantity, not allowed and complete; otherwise allowed.
VerifyPriority ==
    (/\ Verified
     /\ "raise" \notin {input.pr.kind, input.ob.kind, input.tb.kind})
        => LET r == output.result
               first == CHOOSE k \in ExitOrdersSeen : \A j \in ExitOrdersSeen : k <= j
           IN  IF ReportedQuantity = 0
               THEN ~r.can_place_exit /\ r.order_status = "complete"
               ELSE IF ExitOrdersSeen # {}
               THEN r.can_place_exit
                        = (input.ob.data[first].order_status \in {"cancelled", "rejected"})
               ELSE IF ExitTradesSeen # {}
               THEN ~r.can_place_exit /\ r.order_status = "complete"
               ELSE r.can_place_exit

\* C18 witness: the position is live, the order book holds a rejected exit
\* order before an open one and the trade book an exit trade: the rejected
\* order decides and a new exit is allowed.
RejectedOrderDecides ==
    /\ Verified
    /\ input.pr.kind = "success" /\ ReportedQuantity # 0
    /\ input.ob.kind = "success" /\ Len(input.ob.data) = 2
    /\ IsExitEntry(input.ob.data[1]) /\ input.ob.data[1].order_status = "rejected"
    /\ IsExitEntry(input.ob.data[2]) /\ input.ob.data[2].order_status = "open"
    /\ input.tb.kind = "success" /\ ExitTradesSeen # {}
    /\ output.result.can_place_exit
    /\ output.result.order_status = "rejected"

\* C19: every position is entered with no order id and attempt count 0,
\* or exit_pending (with or without order id), or exited.
NoAmbiguousState ==
    \A p \in Pos :
        /\ exec[p].status \in {"entered", "exit_pending", "exited"}
        /\ exec[p].status = "entered"
              => /\ exec[p].exit_order_id = NullId
                 /\ exec[p].exit_attempt_count = 0

\* C19 witness: an order call has failed after the broker took the order
\* (its answer was lost) and the position is exit_pending without order id.
FailedAfterBrokerTookOrder ==
    /\ ev.op = "failed"
    /\ orders[ev.pos] # <<>>
    /\ exec[ev.pos].status = "exit_pending"
    /\ exec[ev.pos].exit_order_id = NullId

\* C20: can_attempt_exit answers by the first row of its table that
\* applies: exited, no; order id set, no; attempts used up, no; entered
\* without exit_pending_since, yes; exit_pending before exit_retry_after,
\* no; exit_pending at or after exit_retry_after, yes.  The row is left as
\* it was.
EligibilityTable ==
    (output # NoCall /\ output.fn = "can_attempt_exit")
        => LET row == input.row
               yes == output.can_attempt
           IN  /\ exec[CalledPos] = row
               /\ IF row.status = "exited" THEN ~yes
                  ELSE IF row.exit_order_id # NullId THEN ~yes
                  ELSE IF row.exit_attempt_count >= MAX_EXIT_ATTEMPTS THEN ~yes
                  ELSE /\ (row.status = "entered" /\ row.exit_pending_since = NullTime)
                            => yes
                       /\ (/\ row.status = "exit_pending"
                           /\ row.exit_retry_after # NullTime
                           /\ now < row.exit_retry_after) => ~yes
                       /\ (/\ row.status = "exit_pending"
                           /\ row.exit_retry_after # NullTime
                           /\ row.exit_retry_after <= now) => yes

\* C20 witness: an exit_pending row with attempts left is asked about at
\* the very instant exit_retry_after and may be attempted.
EligibleAtRetryInstant ==
    /\ output # NoCall
    /\ output.fn = "can_attempt_exit"
    /\ input.row.status = "exit_pending"
    /\ input.row.exit_order_id = NullId
    /\ input.row.exit_attempt_count = MAX_EXIT_ATTEMPTS - 1
    /\ input.row.exit_retry_after = now
    /\ now > 0
    /\ output.can_attempt


\* ------------------------------------------------ alignment specification
\* The first loop of monitor_strategies for one strategy at one tick.
Minutes == 0..59
Timeframes == {"1m", "3m", "5m", "10m", "15m"}
ConfiguredTimeframes == {"3m", "5m", "10m", "15m"}

\* A lookup that answers the default for every timeframe.
TimeframeMinutesAlwaysDefault(timeframe) == 5

\* timeframe_minutes.get(strategy.supertrend_timeframe, 5) (lines 207-214)
TimeframeMinutes(timeframe) ==
    CASE timeframe = "3m" -> 3
      [] timeframe = "5m" -> 5
      [] timeframe = "10m" -> 10
      [] timeframe = "15m" -> 15
      [] OTHER -> 5

\* should_check_strategy (lines 193-217) at the minute the clock shows.
ShouldCheckStrategy(minute, timeframe) ==
    (minute % TimeframeMinutes(timeframe)) = 0

\* listed: the strategy is in the first loop's query (enabled, latch false);
\* signal: check_supertrend_exit, if called, finds the exit condition met.
InitAlignment ==
    /\ IdleState
    /\ now = 0
    /\ exec = [p \in Pos |-> InitRow]
    /\ \E minute \in Minutes, timeframe \in Timeframes,
          listed \in BOOLEAN, signal \in BOOLEAN :
          input = [fn |-> "monitor_strategies", minute |-> minute,
                   timeframe |-> timeframe, listed |-> listed,
                   signal |-> signal]
    /\ output = NoCall

\* Lines 139-153: should_check_strategy, then check_supertrend_exit, which
\* calls trigger_sequential_exit when the signal is there.
FirstLoop ==
    /\ input.fn = "monitor_strategies"
    /\ output = NoCall
    /\ LET should_check ==
               input.listed /\ ShouldCheckStrategy(input.minute, input.timeframe)
       IN  output' = [fn |-> "monitor_strategies",
                      evaluated |-> should_check,
                      dispatched |-> should_check /\ input.signal]
    /\ Untouched

NextAlignment == FirstLoop

SpecAlignment == InitAlignment /\ [][NextAlignment]_vars

\* ------------------------------------------------ batch specification
\* The loop of trigger_sequential_exit over execution_ids (lines 681-824),
\* with what can go wrong while one position is processed.
MaxBatch == 3

\* Where an exception can be raised while a position is processed.
Stages == {"claim", "refetch", "client", "verification", "submission",
           "state_update", "poller"}

\* How the processing of a position ends when nothing is raised.
Outcomes == {"not_claimed", "no_account", "confirmed", "closed",
             "order_open", "success", "failed"}

\* A loop without a handler of its own: everything ends the invocation.
CaughtByInvocationOnly(stage) == "invocation"

\* The handler that catches an exception raised at a stage: the claim
\* functions (exit_order_manager.py lines 89, 139), the verification (line
\* 261) and the order call (line 790) have their own, everything else in
\* the loop body goes to the position's handler (line 822), and an exception
\* of that handler's rollback (line 824) to the invocation's (line 844).
CaughtBy(stage) ==
    CASE stage = "claim" -> "claim"
      [] stage = "verification" -> "verification"
      [] stage = "submission" -> "submission"
      [] stage = "rollback" -> "invocation"
      [] OTHER -> "position"

\* What the position's processing comes to after an exception that a
\* callee caught: the claim returns False, the verification answers that no
\* order may be placed, the order call counts as an error response.
OutcomeAfter(stage) ==
    CASE stage = "claim" -> "not_claimed"
      [] stage = "verification" -> "closed"
      [] stage = "submission" -> "failed"
      [] OTHER -> "raised"

InitBatch ==
    /\ IdleState
    /\ now = 0
    /\ exec = [p \in Pos |-> InitRow]
    /\ \E n \in 1..MaxBatch :
          input = [fn |-> "exit_loop", execution_ids |-> [i \in 1..n |-> i]]
    /\ output = NoCall

\* Line 681: the loop is entered.
EnterLoop ==
    /\ input.fn = "exit_loop"
    /\ output = NoCall
    /\ output' = [fn |-> "exit_loop", left |-> input.execution_ids,
                  done |-> <<>>, returned |-> FALSE]
    /\ Untouched

\* One pass of the loop body (lines 686-824) for the next execution id.
\* fault is the stage that raises, if any; rollback_raises says whether the
\* rollback of the position's handler raises in turn.
ProcessPosition ==
    /\ output # NoCall
    /\ output.fn = "exit_loop"
    /\ ~output.returned
    /\ output.left # <<>>
    /\ \E fault \in Stages \cup {"none"}, outcome \in Outcomes,
          rollback_raises \in BOOLEAN :
          LET exec_id == Head(output.left)
              handler == IF fault = "none" THEN "none" ELSE CaughtBy(fault)
              second == IF handler = "position" /\ rollback_raises
                        THEN CaughtBy("rollback") ELSE "none"
              ends == "invocation" \in {handler, second}
              entry == [id |-> exec_id,
                        fault |-> fault,
                        rollback_failed |-> (second # "none"),
                        outcome |-> IF fault = "none" THEN outcome
                                    ELSE OutcomeAfter(fault)]
          IN  output' = [output EXCEPT
                            !.left = Tail(@),
                            !.done = Append(@, entry),
                            !.returned = ends]
    /\ Untouched

\* Lines 826-845: the loop is through and the invocation returns.
LeaveLoop ==
    /\ output # NoCall
    /\ output.fn = "exit_loop"
    /\ ~output.returned
    /\ output.left = <<>>
    /\ output' = [output EXCEPT !.returned = TRUE]
    /\ Untouched

NextBatch == EnterLoop \/ ProcessPosition \/ LeaveLoop

SpecBatch == InitBatch /\ [][NextBatch]_vars

\* ------------------------------------------------ failover specification
\* The background service alone: accounts connect and disconnect, option
\* chains are started, and a failover runs one activation at a time.
InitFailover ==
    /\ IdleState
    /\ now = 0
    /\ exec = [p \in Pos |-> InitRow]
    /\ input = NoCall
    /\ output = NoCall

ServiceOnly ==
    UNCHANGED <<now, dialect, dbVars, orders, pc, localVars, schedVars, ev,
                freshWins, submitted, poller, input, output>>

\* on_primary_account_connected(account) for the account flagged primary:
\* it becomes primary, every other active account a backup, in creation
\* order.
PrimaryConnected ==
    /\ service.pc = "idle"
    /\ service' = [service EXCEPT
                      !.primary_account = FlaggedPrimary,
                      !.backup_accounts = OthersFrom(FlaggedPrimary, 1),
                      !.op = "connect",
                      !.listed = <<>>, !.tried = <<>>, !.had = {},
                      !.fetched = <<>>, !.fetch_ok = FALSE]
    /\ ServiceOnly

\* start_option_chain(underlying), called outside a failover.
CallStartOptionChain(u) ==
    /\ service.pc = "idle"
    /\ \E resp \in ExpiryResponses, auth \in BOOLEAN :
          service' = [StartOptionChain(service, u, resp, auth) EXCEPT
                         !.op = "start",
                         !.listed = <<>>, !.tried = <<>>, !.had = {}]
    /\ ServiceOnly

\* on_account_disconnected(primary): attempt_failover is entered.
PrimaryDisconnected ==
    /\ service.pc = "idle"
    /\ service.primary_account # NoAccount
    /\ service' = [service EXCEPT
                      !.pc = "failover",
                      !.op = "disconnect",
                      !.listed = service.backup_accounts,
                      !.tried = <<>>,
                      !.had = ActiveUnderlyings(service),
                      !.fetched = <<>>, !.fetch_ok = FALSE]
    /\ ServiceOnly

\* One activation of attempt_failover up to its recursive call or, on a
\* successful liveness call, up to the loop that restarts the chains.
AttemptFailover ==
    /\ service.pc = "failover"
    /\ IF service.backup_accounts = <<>>
       THEN service' = [StopAllOptionChains(service) EXCEPT
                           !.pc = "idle", !.op = "exhausted"]
       ELSE \E res \in PingResults :
              LET next_account == Head(service.backup_accounts)
                  popped == [service EXCEPT
                      !.backup_accounts = PopBackup(@),
                      !.tried = Append(@, [account |-> next_account,
                                           result |-> res])]
                  active_underlyings == ActiveUnderlyings(service)
              IN  service' =
                    IF res # "success" THEN popped
                    ELSE [popped EXCEPT
                            !.primary_account = next_account,
                            !.todo = active_underlyings,
                            !.pc = IF active_underlyings = {}
                                   THEN "idle" ELSE "restart",
                            !.op = IF active_underlyings = {}
                                   THEN "promoted" ELSE "failover"]
    /\ ServiceOnly

\* restart_option_chain(underlying) for one of the active underlyings:
\* stop_option_chain, then start_option_chain.
RestartOptionChain ==
    /\ service.pc = "restart"
    /\ \E u \in service.todo, resp \in ExpiryResponses, auth \in BOOLEAN :
          LET stopped == StopOptionChain(service, <<u>>)
              started == StartOptionChain(stopped, u, resp, auth)
              rest == service.todo \ {u}
          IN  service' = [started EXCEPT
                            !.todo = rest,
                            !.pc = IF rest = {} THEN "idle" ELSE "restart",
                            !.op = IF rest = {} THEN "promoted" ELSE "restart"]
    /\ ServiceOnly

NextFailover ==
    \/ PrimaryConnected
    \/ \E u \in Underlyings : CallStartOptionChain(u)
    \/ PrimaryDisconnected
    \/ AttemptFailover
    \/ RestartOptionChain

SpecFailover == InitFailover /\ [][NextFailover]_vars

\* A failover, once entered, runs on: the handler is one synchronous call.
FairSpecFailover ==
    SpecFailover /\ WF_vars(AttemptFailover) /\ WF_vars(RestartOptionChain)


\* ------------------------------------------------------------------ C21
\* During and after a failover the accounts tried are a prefix of the list
\* as it stood at the disconnection, each once and in order, and the rest of
\* the list is what is left to try.
TriedInListOrder ==
    /\ Len(service.tried) <= Len(service.listed)
    /\ \A i \in 1..Len(service.tried) :
          service.tried[i].account = service.listed[i]
    /\ service.backup_accounts =
          SubSeq(service.listed, Len(service.tried) + 1, Len(service.listed))

LastTried == service.tried[Len(service.tried)]

FailoverBounded ==
    /\ (service.pc # "idle" \/ service.op \in {"promoted", "exhausted"})
          => TriedInListOrder
    /\ service.op = "exhausted" => service.backup_accounts = <<>>
    /\ (service.pc = "restart" \/ service.op = "promoted") =>
          /\ service.tried # <<>>
          /\ LastTried.result = "success"
          /\ service.primary_account = LastTried.account

FailoverEnded == service.op \in {"promoted", "exhausted"}

\* C21: attempt_failover terminates: with n backups listed it makes at most
\* n liveness calls, tries each backup at most once, and ends either with a
\* promoted primary or with the backup list empty.
FailoverTerminates ==
    /\ []FailoverBounded
    /\ (service.pc = "failover") ~> FailoverEnded

\* Every listed backup was tried and failed, and the failover ended.
AllBackupsTriedInVain ==
    /\ service.op = "exhausted"
    /\ Len(service.listed) = NumBackups
    /\ Len(service.tried) = NumBackups

\* ------------------------------------------------------------------ C22
\* The promoted account is the first listed backup whose liveness call
\* succeeded; every backup before it was tried and did not succeed.
FirstLiveBackupPromoted ==
    /\ TriedInListOrder
    /\ service.tried # <<>>
    /\ service.primary_account = LastTried.account
    /\ LastTried.result = "success"
    /\ \A i \in 1..(Len(service.tried) - 1) :
          service.tried[i].result # "success"

ManagersOf(u) == {m \in service.active_managers : KeyUnderlying(m.key) = u}

Remaining == {service.backup_accounts[i] : i \in 1..Len(service.backup_accounts)}

ExhaustedStopsAll ==
    service.op = "exhausted" => service.active_managers = {}

\* ------------------------------------------------------------------ C24
\* The calls of the latest expiry fetch: the primary first, then the backups
\* in list order, each call but the last a non-success, and a failure only
\* after every account was asked.
FetchedInOrder(svc) ==
    LET order == <<svc.primary_account>> \o svc.backup_accounts
        calls == svc.fetched
    IN  /\ Len(calls) >= 1
        /\ Len(calls) <= Len(order)
        /\ \A i \in 1..Len(calls) : calls[i].account = order[i]
        /\ \A i \in 1..(Len(calls) - 1) : ~calls[i].ok
        /\ svc.fetch_ok = calls[Len(calls)].ok
        /\ ~svc.fetch_ok => Len(calls) = Len(order)

\* C24: the expiry fetch of start_option_chain asks the primary first and
\* then the backups in list order until one succeeds, reports failure only
\* if all of them answered non-success, and leaves the stored primary and
\* the backup list as they were.
ReadPathLeavesAccounts ==
    [][((service'.op = "start" \/ service.pc = "restart")
            /\ service.primary_account # NoAccount) =>
          /\ service'.primary_account = service.primary_account
          /\ service'.backup_accounts = service.backup_accounts
          /\ FetchedInOrder(service')]_vars

\* A fetch that fell through the primary and every backup but the last.
FetchFellThroughToLastBackup ==
    /\ service.op = "start"
    /\ Len(service.fetched) = NumBackups + 1
    /\ service.fetch_ok


\* ------------------------------------------------------------------ C25
\* C25: within one scheduler tick the Coordinator is invoked at most once for
\* the strategy: after the first loop handled it (signal evaluation), that
\* tick's retry sweep does not invoke the Coordinator, and a new tick starts
\* with a fresh skip set, so a strategy that is not evaluated for a signal
\* in this tick is not skipped because of an earlier tick.
OncePerTick ==
    [][/\ (pc[Sched] = "sweep" /\ (processed \/ phase = "signal"))
            => pc'[Sched] # "latch"
       /\ (pc[Sched] = "idle" /\ pc'[Sched] # "idle" /\ triggered)
            => ~processed']_vars

\* The sweep is about to run in a tick whose first loop invoked the
\* Coordinator, and a position is due for a retry.
SweepMustSkip ==
    /\ pc[Sched] = "sweep"
    /\ phase = "signal"
    /\ processed
    /\ triggered
    /\ \E p \in Pos : PendingRetry(exec[p], now)


\* ------------------------------------------------------------------ C26
\* The minutes of an hour at which a candle of n minutes closes.
CandleCloses(n) == {m \in Minutes : \E k \in 0..59 : m = k * n}

ConfiguredMinutes ==
    [tf \in ConfiguredTimeframes |->
        IF tf = "3m" THEN 3 ELSE IF tf = "5m" THEN 5
        ELSE IF tf = "10m" THEN 10 ELSE 15]

\* C26: a strategy in the first loop's query, with a timeframe of 3, 5, 10 or
\* 15 minutes, is evaluated for a signal in a tick exactly when the tick's
\* minute is a multiple of the timeframe; on any other tick it is neither
\* evaluated nor is the Coordinator invoked for a first trigger.
EvaluatedOnAlignedTicks ==
    (/\ output # NoCall
     /\ output.fn = "monitor_strategies"
     /\ input.timeframe \in ConfiguredTimeframes)
        => LET aligned ==
                   input.minute \in CandleCloses(ConfiguredMinutes[input.timeframe])
           IN  /\ input.listed => (output.evaluated <=> aligned)
               /\ ~aligned => (~output.evaluated /\ ~output.dispatched)
               /\ output.dispatched => output.evaluated

\* A 15-minute strategy is evaluated at minute 45 and the Coordinator is
\* invoked.
DispatchedAtQuarterHour ==
    /\ output # NoCall
    /\ output.fn = "monitor_strategies"
    /\ input.timeframe = "15m"
    /\ input.minute = 45
    /\ output.evaluated
    /\ output.dispatched


\* ------------------------------------------------------------------ C27
\* C27: the latch is one-shot: a step that takes triggered from true to
\* false is no step of the Scheduler or the Coordinator (no thread moves,
\* no row or order changes, the tick's bookkeeping stays), so the latch
\* stays true until an external reset.
LatchNeverResetAutomatically ==
    [][(triggered /\ ~triggered')
          => UNCHANGED <<pc, localVars, schedVars, exec, orders, rowLock>>]_vars

\* An invocation found the latch set, returned, and the latch is still set.
LatchSeenSetStaysSet ==
    /\ ev.op = "latch"
    /\ ~ev.ok
    /\ triggered

\* ------------------------------------------------------------------ C28
\* C28: the latch flips to true only on a successful dispatch: an
\* invocation that finds no candidate positions ends with the latch false.
LatchOnlyOnDispatch ==
    [][\A t \in Threads :
          (pc[t] = "select" /\ pc'[t] \notin {"select", "claim"})
              => ~triggered']_vars


\* ------------------------------------------------------------------ C29
ClaimCalls == {"claim_fresh", "claim_retry", "claim_fresh_error", "claim_retry_error"}

\* C29: a fresh or retry claim that returns false, because the guard did
\* not match or because the store raised during the update, leaves every
\* field of the position as it was before the call.
RefusedClaimLeavesRow ==
    (ev.op \in ClaimCalls /\ ~ev.ok) => exec[ev.pos] = ev.before

\* A retry claim on a row that met the guard failed in the store, and the
\* row is as before.
DueRetryClaimFailedInStore ==
    /\ ev.op = "claim_retry_error"
    /\ ClaimRetryGuard(ev.before, ev.at)
    /\ exec[ev.pos] = ev.before


SubmissionsBounded ==
    \A p \in Pos :
        /\ submitted[p] <= exec[p].exit_attempt_count
        /\ submitted[p] <= MAX_EXIT_ATTEMPTS

\* A retry was claimed and submitted: two claims, two submissions.
RetrySubmitted ==
    \E p \in Pos :
        /\ submitted[p] = 2
        /\ exec[p].exit_attempt_count = 2


\* ------------------------------------------------------------------ C32
\* C32: when an order submission returns success, mark_exit_success stores
\* the order id of the response as exit_order_id, with the status still
\* exit_pending, broker_order_status open and exit_broker_verified false;
\* after that, and not before, exactly one entry for the execution and that
\* order id is handed to the order-status poller.
SuccessRecordedThenPolled ==
    [][/\ ev'.op = "success" =>
            /\ exec'[ev'.pos].exit_order_id = call'[ev'.thread]
            /\ exec'[ev'.pos].status = "exit_pending"
            /\ exec'[ev'.pos].broker_order_status = "open"
            /\ exec'[ev'.pos].exit_broker_verified = FALSE
            /\ pc'[ev'.thread] = "enqueue"
            /\ poller' = poller
       /\ poller' # poller =>
            /\ ev'.op = "add_order"
            /\ pc[ev'.thread] = "enqueue"
            /\ pc'[ev'.thread] # "enqueue"
            /\ poller' = Append(poller, PollerEntry(ev'.pos, call[ev'.thread]))
      ]_vars

\* The order of a successful submission has just been handed to the poller
\* and is the one stored on the position.
SuccessPolled ==
    /\ ev.op = "add_order"
    /\ poller # <<>>
    /\ poller[Len(poller)] = PollerEntry(ev.pos, exec[ev.pos].exit_order_id)
    /\ exec[ev.pos].status = "exit_pending"


\* ------------------------------------------------------------------ C33
\* C33: an order is submitted only by an invocation that stands at the
\* order call for the position, and an invocation whose claim left the
\* position's exit_attempt_count above 1 gets there only through a broker
\* verification of that position that allowed the exit; after a
\* verification that did not allow it the invocation makes no order call
\* for the position.
RetryVerifiedBeforeOrder ==
    [][/\ \A p \in Pos : submitted'[p] # submitted[p] =>
            \E t \in Threads :
                /\ pc[t] = "inflight"
                /\ pc'[t] = "return"
                /\ Head(queue[t]) = p
       /\ \A t \in Threads :
            (pc'[t] = "inflight" /\ pc[t] # "inflight" /\ claimedFrom[t] + 1 > 1) =>
                /\ pc[t] = "verify"
                /\ ev'.op = "verified"
                /\ ev'.thread = t
                /\ ev'.pos = Head(queue'[t])
       /\ ev'.op \in {"confirmed", "direct_exit", "skip"} =>
            /\ pc'[ev'.thread] \notin {"inflight", "return"}
            /\ submitted' = submitted
      ]_vars

\* The order call of a retry attempt has been made.
RetryOrderCalled ==
    \E t \in Threads :
        /\ pc[t] = "return"
        /\ claimedFrom[t] + 1 > 1
        /\ submitted[Head(queue[t])] > 0


\* ------------------------------------------------------------------ C34
\* C34: when the verification of a retry attempt reports an exit order that
\* is neither complete nor cancelled or rejected, the invocation places no
\* order for the position and does not call mark_exit_failed, and it leaves
\* the position's status, exit_order_id and error_message as they were
\* before it: the skip writes nothing, and the claim of the invocation was
\* a retry claim, which keeps the three fields.
SkipLeavesPosition ==
    [][/\ (ev'.op = "skip" /\ ev'.found # "none") =>
            /\ exec' = exec
            /\ orders' = orders
            /\ submitted' = submitted
            /\ pc'[ev'.thread] \notin {"inflight", "return", "enqueue"}
            /\ IsRetryEvent(reason[ev'.thread])
       /\ ev'.op = "claim_retry" =>
            /\ exec'[ev'.pos].status = exec[ev'.pos].status
            /\ exec'[ev'.pos].exit_order_id = exec[ev'.pos].exit_order_id
            /\ exec'[ev'.pos].error_message = exec[ev'.pos].error_message
      ]_vars

\* A retry attempt has just been skipped on an order that is open at the
\* broker.
SkippedOnOpenOrder ==
    /\ ev.op = "skip"
    /\ ev.found = "open"
    /\ exec[ev.pos].status = "exit_pending"
    /\ exec[ev.pos].exit_order_id = NullId


\* ------------------------------------------------------------------ C35
\* One invocation of trigger_sequential_exit from the candidate queries on
\* (lines 618-824), on any row the table can hold for the position: the
\* entry order may have been refused, the position may be claimed, carry an
\* exit order or be exited already.
SelectRows ==
    {[InitRow EXCEPT !.status = st,
                     !.exit_order_id = id,
                     !.broker_order_status = bs,
                     !.exit_attempt_count = IF st = "entered" THEN 0 ELSE 1,
                     !.exit_retry_after = IF st = "entered" THEN NullTime ELSE ra] :
        st \in {"entered", "exit_pending", "exited"},
        id \in {NullId, OrderId(1, 1)},
        bs \in {"complete", "open", "rejected", "cancelled"},
        ra \in {0, EXIT_RETRY_DELAY_SECONDS}}

InitSelect ==
    /\ IdleState
    /\ now = EXIT_RETRY_DELAY_SECONDS
    /\ exec \in [Pos -> SelectRows]
    /\ input \in {[fn |-> "select", reason |-> r] : r \in ManualReasons}
    /\ output = NoCall

\* The invocation has passed the latch and stands at the queries.
EnterSelect ==
    /\ input.fn = "select"
    /\ \A t \in Threads : pc[t] = "idle" /\ reason[t] = NoReason
    /\ phase = "idle"
    /\ \E t \in Threads :
        /\ pc' = [pc EXCEPT ![t] = "select"]
        /\ reason' = [reason EXCEPT ![t] = input.reason]
    /\ phase' = "sweep"
    /\ UNCHANGED <<now, dialect, dbVars, orders, saw, queue, loaded, call, claimedFrom,
                   processed, ev, freshWins, submitted, poller, input, output, service>>

NextSelect ==
    \/ EnterSelect
    \/ \E t \in Threads : SelectExecutions(t)
    \/ \E t \in Threads : Claim(t)
    \/ \E t \in Threads : Refetch(t)
    \/ \E t \in Threads : Verify(t)
    \/ \E t \in Threads : BrokerReceive(t)
    \/ \E t \in Threads : Return(t)
    \/ \E t \in Threads : Enqueue(t)

SpecSelect == InitSelect /\ [][NextSelect]_vars

\* What the selection asks of a row, for the reason of the invocation.
Selectable(row, r) ==
    /\ row.status = "entered" \/ (IsRetryEvent(r) /\ row.status = "exit_pending")
    /\ row.exit_order_id = NullId
    /\ row.broker_order_status \notin {"rejected", "cancelled"}

\* C35: the positions an invocation takes into its loop have status entered
\* (on a retry event also exit_pending), no exit_order_id and a
\* broker_order_status other than rejected or cancelled; a claim that goes
\* through is on such a row, and an order is only submitted for a position
\* the invocation selected and claimed.
OnlyCandidatesProcessed ==
    [][/\ \A t \in Threads :
            (pc[t] = "select" /\ pc'[t] = "claim") =>
                \A k \in 1..Len(queue'[t]) : Selectable(exec[queue'[t][k]], reason[t])
       /\ (ev'.op \in {"claim_fresh", "claim_retry"} /\ ev'.ok) =>
            /\ Selectable(exec[ev'.pos], reason[ev'.thread])
            /\ ev'.pos = Head(queue[ev'.thread])
       /\ \A p \in Pos : submitted'[p] # submitted[p] =>
            /\ exec[p].status # "entered"
            /\ \E t \in Threads : pc[t] = "inflight" /\ Head(queue[t]) = p
      ]_vars

\* A retry event has claimed an exit_pending position and called the
\* broker for it.
PendingCandidateSubmitted ==
    \E p \in Pos :
        /\ submitted[p] = 1
        /\ exec[p].status = "exit_pending"
        /\ exec[p].exit_attempt_count = 2
        /\ input # NoCall
        /\ input.fn = "select"


\* ------------------------------------------------------------------ C36
\* What an uncontended claim on the row at instant t answers:
\* atomic_claim_exit for an entered row, atomic_claim_exit_retry for an
\* exit_pending one; no claim is made on a row of another status.
ClaimWouldSucceed(row, t) ==
    IF row.status = "entered" THEN ClaimExitRowcount(row) > 0
    ELSE IF row.status = "exit_pending" THEN ClaimRetryRowcount(row, t) > 0
    ELSE FALSE

\* C36: can_attempt_exit answers true for a row exactly when the claim on
\* that row at the same instant would go through, whatever the row: also
\* for an entered row whose attempts are used up and for an exit_pending
\* row without exit_retry_after.
EligibilityAgreesWithClaims ==
    (output # NoCall /\ output.fn = "can_attempt_exit") =>
        (output.can_attempt <=> ClaimWouldSucceed(exec[CalledPos], now))

\* The rows on which the two agree: all but the entered rows with used-up
\* attempts and the exit_pending rows without exit_retry_after.
EligibilityAgreesOnTimedRows ==
    (/\ output # NoCall
     /\ output.fn = "can_attempt_exit"
     /\ ~(exec[CalledPos].status = "entered"
            /\ exec[CalledPos].exit_attempt_count >= MAX_EXIT_ATTEMPTS)
     /\ ~(exec[CalledPos].status = "exit_pending"
            /\ exec[CalledPos].exit_retry_after = NullTime)) =>
        (output.can_attempt <=> ClaimWouldSucceed(exec[CalledPos], now))


\* ------------------------------------------------------------------ C37
\* C37: the filter of get_pending_exit_retries and the WHERE clause of
\* atomic_claim_exit_retry accept the same rows at the same instant, and
\* the invocation the retry sweep dispatches for the positions it found
\* gets to claim them: it is not turned away before the claims.
SweepDispatchReachesClaim ==
    [][/\ \A p \in Pos : PendingRetry(exec[p], now) <=> ClaimRetryGuard(exec[p], now)
       /\ (ev'.op = "latch" /\ ev'.thread = Sched /\ phase = "sweep") => ev'.ok
      ]_vars

\* The filter and the WHERE clause alone.
SweepFilterIsRetryGuard ==
    \A p \in Pos : PendingRetry(exec[p], now) <=> ClaimRetryGuard(exec[p], now)


\* ------------------------------------------------------------------ C38
\* One invocation at a time, with order responses that may lack the order
\* id.
NextResponse ==
    \/ NextSeq
    \/ \E t \in Threads : ReturnNoOrderId(t)

SpecResponse == Init /\ [][NextResponse]_vars

\* C38: after an order submission that returned success the position has
\* an exit_order_id, whether the response carried an order id or not, and a
\* position whose order was handed to the poller is never claimed for a
\* retry.
SuccessStoresOrderId ==
    [][/\ ev'.op = "success" => exec'[ev'.pos].exit_order_id # NullId
       /\ (ev'.op = "claim_retry" /\ ev'.ok) =>
            \A k \in 1..Len(poller) : poller[k].execution_id # ev'.pos
      ]_vars

\* A position is claimed for a retry although an earlier submission for it
\* returned success.
RetryClaimedAfterSuccess ==
    /\ ev.op = "claim_retry"
    /\ ev.ok
    /\ \E k \in 1..Len(poller) : poller[k].execution_id = ev.pos


\* ------------------------------------------------------------------ C39
\* C39: the retry path marks a position exited on the verification's word
\* 'complete' only when the broker's books show it: the position book
\* lists no quantity for the symbol, or an exit order or trade of the
\* position is complete.  In the model both mean that an exit order of the
\* position was filled.
ExitedOnlyOnBrokerEvidence ==
    [][ev'.op = "confirmed" => LiveQuantity(ev'.pos, orders[ev'.pos]) = 0]_vars


\* ------------------------------------------------------------------ C40
\* C40: when the order book the verification reads holds an exit order for
\* the position's symbol that is still open, can_place_exit is False,
\* wherever that order stands among the cancelled and rejected exit orders
\* of the symbol.
OpenExitOrderBlocks ==
    (/\ Verified
     /\ \E k \in ExitOrdersSeen : input.ob.data[k].order_status = "open")
        => ~output.result.can_place_exit

\* The same for an order book whose first exit order of the symbol is the
\* open one.
FirstOpenExitOrderBlocks ==
    (/\ Verified
     /\ ExitOrdersSeen # {}
     /\ input.ob.data[ExitOrderIndex(input.pos, input.ob.data)].order_status = "open")
        => ~output.result.can_place_exit

====
